---------------------------- MODULE Spec2Model ----------------------------
(***************************************************************************)
(* Model of the reconciliation / metrics core of src/main.py:              *)
(*   get_analysis_periods, convert_currencies_and_group_vectorized,        *)
(*   merge_data_sources, analyze_weekly_kpis, clean_coverage_data,         *)
(*   calculate_weekly_coverage, the coverage commentary / scorecard,       *)
(*   analyze_top_products, and the publishing of the report                *)
(*   (create_weekly_google_doc_report, send_slack_report_with_image).      *)
(*                                                                         *)
(* Conventions                                                             *)
(*   - a calendar date is its proleptic Gregorian ordinal (Python's        *)
(*     date.toordinal(): 0001-01-01 is day 1, a Monday);                   *)
(*   - a '%Y-%m-%d' string is the triple <<year, month, day>>; comparing   *)
(*     two such zero-padded strings is comparing the triples               *)
(*     lexicographically;                                                  *)
(*   - money is an integer number of cents, a KPI value rounded to one     *)
(*     decimal is an integer number of tenths, an exchange rate is an      *)
(*     integer number of hundredths;                                       *)
(*   - a data frame is a set (or, where the order is part of the result,   *)
(*     a sequence) of rows; a row is a function from column names to       *)
(*     values, and a NaN cell is a column missing from the row's DOMAIN.   *)
(***************************************************************************)
EXTENDS Integers, Sequences, FiniteSets, TLC

VARIABLES
    \* ---- the caller's reference date and the wall clock ----
    run_date,     \* the run_date argument: [kind, ord, hour]
    now,          \* the wall clock's date, read by datetime.now()
    \* ---- Period Resolver (get_analysis_periods) ----
    pcP,          \* "call" | "done"
    periods,      \* the returned dictionary
    \* ---- Currency Normalizer (convert_currencies_and_group_vectorized) ----
    pcX,          \* "fetch" | "convert" | "done" | "raised"
    df,           \* the argument: one row per (order_day, currency)
    yf,           \* what yf.download returns for each currency's ticker
    todo,         \* currencies the fetch loop has not reached yet
    rates_by_currency_date,   \* date_str -> (currency -> rate)
    df_copy,      \* the rows with their *_eur columns
    df_grouped,   \* the returned frame: one row per order_day, latest first
    \* ---- Source Merger (merge_data_sources) ----
    pcM,          \* "call" | "done"
    df_magento_eur,   \* the caller's transactional frame
    df_ga4,       \* the caller's behavioral frame
    merged_df,    \* the returned frame, a sequence of rows
    \* ---- Weekly KPI Aggregator (analyze_weekly_kpis) ----
    pcK,          \* "call" | "done"
    df_merged,    \* the argument: the merged daily table
    kpi_data,     \* the returned KPI dictionary
    \* ---- Coverage Reconciler ----
    pcC,          \* "clean" | "weekly" | "commentary" | "chart" | "done"
    df_coverage,  \* the reconciliation feed
    df_coverage_clean,    \* clean_coverage_data's result
    df_weekly,    \* calculate_weekly_coverage's result, a sequence of rows
    claude,       \* whether the commentary service answers: "ok" | "error"
    coverage_analysis,    \* analyze_weekly_coverage_with_claude's result
    scorecard,    \* what create_coverage_visualization draws on the card
    \* ---- Top-Entity Ranker (analyze_top_products) ----
    pcT,          \* "call" | "done"
    df_product,   \* the argument: rows of (date, product, revenue)
    top_n,        \* the top_n argument: [kind, val]
    product_data, \* the returned dictionary
    total_revenue_change, \* the change analyze_top_products_with_claude puts in its prompt
    \* ---- Publishing (document, then the chat report) ----
    pcS,          \* "document" | "chat" | "done" | "raised"
    doc_id,       \* create_weekly_google_doc_report's result
    next_send,    \* which send_slack_report_with_image call comes next
    posted,       \* how many chat messages and files have been published
    ret,          \* what the last publishing call returned
    cause,        \* why the last publishing call failed, if it did
    attempts,     \* how often the request that failed was issued
    \* ---- the commentary steps of the run (lines 2802-2830) ----
    pcR,          \* the step the run is at, "raised" once an exception left it
    service,      \* section -> whether the commentary service answers
    weeks,        \* how many entries the weekly coverage frame has
    kpis_to_analyze,  \* the KPIs analyze_kpis_with_claude has still to do
    report_texts, \* section -> the text the run holds for it
    artefacts,    \* the charts and publications made so far
    \* ---- analyze_kpis_with_claude (lines 1046-1211) ----
    pcA,          \* the point analyze_kpis_with_claude is at
    value_to_analyze, \* the argument of that name, "None" when left out
    kpis_data,    \* the KPI names that are keys of kpi_data['kpis']
    call_outcome, \* KPI -> whether its commentary call answers
    loop_rest,    \* the KPIs the loop of line 1109 has still to visit
    analyses,     \* the dictionary the function fills and returns
    requested,    \* the KPIs whose commentary has been requested, in order
    \* ---- module-level configuration and the order of the feeds (lines 49-69, 2782-2828) ----
    pcG,          \* the statement the script is at, "raised" once an exception ended it
    env,          \* credential or identifier -> whether the environment holds it
    feeds_called, \* the external data feeds called so far
    \* ---- the auxiliary feeds: fetch_news_from_tavily, get_holidays, perform_search (lines 124-303) ----
    pcN,          \* the point fetch_news_from_tavily is at
    window_years, \* how many calendar years the current window touches
    holiday_feed, \* request number -> how the holiday request ends
    year_holidays, \* request number -> the holidays of that year that lie in the window
    search_feed,  \* query category -> how client.search ends
    holidays,     \* what get_holidays returned
    all_results,  \* category -> the results stored for it
    combined_results, \* what fetch_news_from_tavily returned
    \* ---- create_weekly_google_doc_report (lines 3056-3829) ----
    pcD,          \* "upload" | "sections" | "returned" | "failed"
    chart_fate,   \* chart -> its file is missing, its upload fails, or it is uploaded
    upload_next,  \* the position in UploadOrder of the next chart to upload
    section_next, \* the position in SectionOrder of the next section to write
    image_ids,    \* the charts that have an id in image_ids
    doc_log,      \* the uploads that returned an id and the requests sent to the document, in order
    \* ---- the window resolutions of one run (lines 2782-2830) ----
    component_next, \* the position in WindowComponents of the next component to resolve its windows
    windows,      \* component -> the window pair it resolved
    ticks,        \* by how many days the wall clock has advanced since the run began
    \* ---- execute_with_rate_limiting (lines 2882-2918) ----
    pcL,          \* "loop" | "returned" | "raised"
    max_retries,  \* the argument of that name
    delay,        \* the seconds the next wait will take
    retries,      \* the local counter of the while loop
    slept,        \* the seconds spent in time.sleep so far
    request_log,  \* how each invocation of request_fn ended, in order
    raised_error  \* "none", or which exception left the function

varsE == <<run_date, now>>
varsP == <<pcP, periods>>
varsX == <<pcX, df, yf, todo, rates_by_currency_date, df_copy, df_grouped>>
varsM == <<pcM, df_magento_eur, df_ga4, merged_df>>
varsK == <<pcK, df_merged, kpi_data>>
varsC == <<pcC, df_coverage, df_coverage_clean, df_weekly, claude,
           coverage_analysis, scorecard>>

varsT == <<pcT, df_product, top_n, product_data, total_revenue_change>>
varsS == <<pcS, doc_id, next_send, posted, ret, cause, attempts>>

varsR == <<pcR, service, weeks, kpis_to_analyze, report_texts, artefacts>>

varsA == <<pcA, value_to_analyze, kpis_data, call_outcome, loop_rest, analyses,
           requested>>

varsG == <<pcG, env, feeds_called>>

varsN == <<pcN, window_years, holiday_feed, year_holidays, search_feed, holidays, all_results, combined_results>>

varsD == <<pcD, chart_fate, upload_next, section_next, image_ids, doc_log>>

varsW == <<component_next, windows, ticks>>

varsL == <<pcL, max_retries, delay, retries, slept, request_log, raised_error>>

vars == <<varsE, varsP, varsX, varsM, varsK, varsC, varsT, varsS, varsR, varsA, varsG, varsN, varsD, varsW, varsL>>

\* what the actions of one component leave alone
othersP == <<varsX, varsM, varsK, varsC, varsT, varsS, varsR, varsA, varsG, varsN, varsD, varsW, varsL>>
othersX == <<varsE, varsP, varsM, varsK, varsC, varsT, varsS, varsR, varsA, varsG, varsN, varsD, varsW, varsL>>
othersM == <<varsE, varsP, varsX, varsK, varsC, varsT, varsS, varsR, varsA, varsG, varsN, varsD, varsW, varsL>>
othersK == <<varsP, varsX, varsM, varsC, varsT, varsS, varsR, varsA, varsG, varsN, varsD, varsW, varsL>>
othersC == <<varsP, varsX, varsM, varsK, varsT, varsS, varsR, varsA, varsG, varsN, varsD, varsW, varsL>>
othersT == <<varsP, varsX, varsM, varsK, varsC, varsS, varsR, varsA, varsG, varsN, varsD, varsW, varsL>>
othersS == <<varsE, varsP, varsX, varsM, varsK, varsC, varsT, varsR, varsA, varsG, varsN, varsD, varsW, varsL>>
othersR == <<varsE, varsP, varsX, varsM, varsK, varsC, varsT, varsS, varsA, varsG, varsN, varsD, varsW, varsL>>
othersA == <<varsE, varsP, varsX, varsM, varsK, varsC, varsT, varsS, varsR, varsG, varsN, varsD, varsW, varsL>>
othersG == <<varsE, varsP, varsX, varsM, varsK, varsC, varsT, varsS, varsR, varsA, varsN, varsD, varsW, varsL>>
othersN == <<varsE, varsP, varsX, varsM, varsK, varsC, varsT, varsS, varsR, varsA, varsG, varsD, varsW, varsL>>
othersD == <<varsE, varsP, varsX, varsM, varsK, varsC, varsT, varsS, varsR, varsA, varsG, varsN, varsW, varsL>>
othersW == <<varsP, varsX, varsM, varsK, varsC, varsT, varsS, varsR, varsA, varsG, varsN, varsD, varsL>>
othersL == <<varsE, varsP, varsX, varsM, varsK, varsC, varsT, varsS, varsR, varsA, varsG, varsN, varsD, varsW>>

-----------------------------------------------------------------------------
(* Calendar: datetime.date arithmetic, strftime('%Y-%m-%d'), strptime.      *)

IsLeap(y) == (y % 4 = 0 /\ y % 100 # 0) \/ y % 400 = 0

DaysInMonth(y, m) ==
    IF m = 2 THEN (IF IsLeap(y) THEN 29 ELSE 28)
    ELSE IF m \in {4, 6, 9, 11} THEN 30 ELSE 31

DaysBeforeYear(y) ==
    LET p == y - 1 IN p * 365 + p \div 4 - p \div 100 + p \div 400

RECURSIVE DaysBeforeMonth(_, _)
DaysBeforeMonth(y, m) ==
    IF m = 1 THEN 0 ELSE DaysBeforeMonth(y, m - 1) + DaysInMonth(y, m - 1)

\* datetime.strptime(s, '%Y-%m-%d').date() as an ordinal
strptime(s) == DaysBeforeYear(s[1]) + DaysBeforeMonth(s[1], s[2]) + s[3]

\* date.strftime('%Y-%m-%d')
strftime(n) ==
    LET y == CHOOSE yy \in (n \div 366)..(n \div 365 + 1) :
                 DaysBeforeYear(yy) < n /\ n <= DaysBeforeYear(yy + 1)
        r == n - DaysBeforeYear(y)
        m == CHOOSE mm \in 1..12 :
                 DaysBeforeMonth(y, mm) < r
                 /\ r <= DaysBeforeMonth(y, mm) + DaysInMonth(y, mm)
    IN <<y, m, r - DaysBeforeMonth(y, m)>>

\* date.weekday(): Monday is 0, Sunday is 6
weekday(n) == (n + 6) % 7

\* s1 <= s2 on '%Y-%m-%d' strings
StrLeq(s1, s2) ==
    \/ s1[1] < s2[1]
    \/ s1[1] = s2[1] /\ s1[2] < s2[2]
    \/ s1[1] = s2[1] /\ s1[2] = s2[2] /\ s1[3] <= s2[3]

-----------------------------------------------------------------------------
(* Bounds of the model.                                                     *)

\* the first reference date of the model: Monday 2024-02-26 (the range
\* crosses the leap day and a month boundary)
FirstRefDay == strptime(<<2024, 2, 26>>)
\* number of consecutive reference dates tried
NRefDays == 14
\* number of consecutive wall-clock dates tried
NNowDays == 8

RefDays == FirstRefDay..(FirstRefDay + NRefDays - 1)
NowDays == (FirstRefDay + 3)..(FirstRefDay + 3 + NNowDays - 1)

-----------------------------------------------------------------------------
(* Period Resolver.                                                         *)

\* the forms of the run_date argument: None, a 'YYYY-MM-DD' string, a date,
\* a datetime (a date and an hour of the day)
RunDateArgs ==
    {[kind |-> "none", ord |-> 0, hour |-> 0]}
    \cup [kind : {"str", "date"}, ord : RefDays, hour : {0}]
    \cup [kind : {"datetime"}, ord : RefDays, hour : {0, 23}]

\* lines 88-96: the reference date as a date object
NormaliseRunDate(rd, clock) ==
    IF rd.kind = "none" THEN clock
    ELSE IF rd.kind = "str" THEN strptime(strftime(rd.ord))
    ELSE rd.ord

PreviousMondayOffByOne(d) == d - (weekday(d) + 6)

\* lines 99-100
PreviousMonday(d) == d - (weekday(d) + 7)

get_analysis_periods(rd, clock) ==
    LET d               == NormaliseRunDate(rd, clock)
        previous_monday == PreviousMonday(d)
        previous_sunday == previous_monday + 6
        earlier_monday  == previous_monday - 7
        earlier_sunday  == earlier_monday + 6
    IN [analysis_period |-> [start |-> strftime(previous_monday),
                             end   |-> strftime(previous_sunday)],
        previous_period |-> [start |-> strftime(earlier_monday),
                             end   |-> strftime(earlier_sunday)]]

NoPeriods ==
    [analysis_period |-> [start |-> <<0, 0, 0>>, end |-> <<0, 0, 0>>],
     previous_period |-> [start |-> <<0, 0, 0>>, end |-> <<0, 0, 0>>]]

\* one call of get_analysis_periods(run_date)
ResolvePeriods ==
    /\ pcP = "call"
    /\ periods' = get_analysis_periods(run_date, now)
    /\ pcP' = "done"
    /\ UNCHANGED <<varsE, othersP>>

NextP == ResolvePeriods


-----------------------------------------------------------------------------
(* Currency Normalizer.                                                     *)

\* the first order_day of the model: Monday 2024-05-06
FirstOrderDay == strptime(<<2024, 5, 6>>)
\* number of consecutive order days the transactional feed may hold
NOrderDays == 2
\* largest number of rows of the transactional feed
MaxRows == 2

OrderDays == FirstOrderDay..(FirstOrderDay + NOrderDays - 1)

\* the reporting currency, a currency with a fallback constant and one
\* without
Currencies == {"EUR", "USD", "JPY"}

\* the days a fetched rate series may hold: the Friday before the first
\* order day (the market is closed at the week-end) and the order days
FeedDays == {FirstOrderDay - 3} \cup OrderDays

\* row['Close'] of the series of currency c at day d, in hundredths:
\* different for every day and every currency, and different from every
\* fallback constant
Close(c, d) ==
    (IF c = "USD" THEN 80 ELSE IF c = "JPY" THEN 60 ELSE 140)
    + (d - (FirstOrderDay - 3))

\* lines 508-511, in hundredths
fallback_rates ==
    [USD |-> 92, GBP |-> 115, CHF |-> 96, DKK |-> 13,
     NOK |-> 9, SEK |-> 9, PLN |-> 23]

FallbackRateNoTable(c) == 100

FallbackRateKnownOnly(c) ==
    IF c \in DOMAIN fallback_rates THEN fallback_rates[c] ELSE 0

\* fallback_rates.get(currency, 1.0)
FallbackRate(c) ==
    IF c \in DOMAIN fallback_rates THEN fallback_rates[c] ELSE 100

\* one row of the query of fetch_magento_kpi_data (lines 448-466); the
\* money columns are ROUND(SUM(...), 2), here in cents
FeedRow(d, c) ==
    [order_day         |-> d,
     currency          |-> c,
     transaction_count |-> 10,
     total_units       |-> 12 + (d - FirstOrderDay),
     total_revenue     |-> IF c = "USD" THEN 100000
                           ELSE 33333 + 100 * (d - FirstOrderDay),
     total_discount    |-> 2550]

\* the frames the feed may return: GROUP BY order_day, currency
Frames ==
    LET keys == OrderDays \X Currencies
    IN {{FeedRow(k[1], k[2]) : k \in K} :
            K \in {S \in SUBSET keys : S # {} /\ Cardinality(S) <= MaxRows}}

\* what yf.download may do: raise, or return a frame (empty when days = {})
Outcomes ==
    {[kind |-> "error", days |-> {}]}
    \cup {[kind |-> "data", days |-> S] : S \in SUBSET FeedDays}

\* line 505
NonReporting(frame) == {r.currency : r \in frame} \ {"EUR"}

SetMin(S) == CHOOSE x \in S : \A y \in S : x <= y
SetMax(S) == CHOOSE x \in S : \A y \in S : x >= y

\* lines 514-519: the span of the fetch, as the two strings
start_date(frame) == strftime(SetMin({r.order_day : r \in frame}) - 5)
end_date(frame)   == strftime(SetMax({r.order_day : r \in frame}) + 5)

\* rates_by_currency_date[date_str][currency] = rate[date_str], for every
\* date_str of DOMAIN rate (lines 545-547, 552-554, 564-566)
PutRates(rates, c, rate) ==
    [s \in (DOMAIN rates) \cup (DOMAIN rate) |->
        IF s \in DOMAIN rate
        THEN [k \in (IF s \in DOMAIN rates THEN DOMAIN rates[s] ELSE {})
                    \cup {c} |->
                 IF k = c THEN rate[s] ELSE rates[s][k]]
        ELSE rates[s]]

\* one iteration of the loop of lines 525-566 for currency c
StoreRates(rates, c, outcome, frame) ==
    LET first  == strptime(start_date(frame))
        last   == strptime(end_date(frame))
        \* yf.download(ticker, start, end): the days from start to end,
        \* end excluded
        data   == {d \in outcome.days : first <= d /\ d < last}
    IN IF outcome.kind = "error" \/ data = {}
       THEN \* pd.date_range(start, end): both ends included
            PutRates(rates, c,
                     [s \in {strftime(d) : d \in first..last} |-> FallbackRate(c)])
       ELSE PutRates(rates, c,
                     [s \in {strftime(d) : d \in data} |-> Close(c, strptime(s))])

\* the latest of a non-empty set of date strings: sorted(...)[-1]
LastStr(S) == CHOOSE s \in S : \A t \in S : StrLeq(t, s)

\* lines 572-589
get_rate(rates, date_str, currency) ==
    IF currency = "EUR" THEN 100
    ELSE IF date_str \in DOMAIN rates /\ currency \in DOMAIN rates[date_str]
    THEN rates[date_str][currency]
    ELSE LET available_dates == {d \in DOMAIN rates : StrLeq(d, date_str)}
         IN IF available_dates # {}
               /\ currency \in DOMAIN rates[LastStr(available_dates)]
            THEN rates[LastStr(available_dates)][currency]
            ELSE FallbackRate(currency)

\* lines 497-502, 569, 592-610: the *_eur columns, in 1/10000
ConvertRow(rates, r) ==
    LET date_str == strftime(r.order_day)
        rate     == IF r.currency = "EUR" THEN 100
                    ELSE get_rate(rates, date_str, r.currency)
    IN [order_day          |-> r.order_day,
        currency           |-> r.currency,
        date_str           |-> date_str,
        transaction_count  |-> r.transaction_count,
        total_units        |-> r.total_units,
        total_revenue      |-> r.total_revenue,
        total_discount     |-> r.total_discount,
        total_revenue_eur  |-> r.total_revenue * rate,
        total_discount_eur |-> r.total_discount * rate]

RECURSIVE SumCol(_, _)
\* the sum of column col over the rows of S: Series.sum()
SumCol(S, col) ==
    IF S = {} THEN 0
    ELSE LET r == CHOOSE x \in S : TRUE IN r[col] + SumCol(S \ {r}, col)

\* x / q rounded to the nearest integer, a tie to the even one
\* (Series.round, round()), q > 0
RoundDiv(x, q) ==
    LET lo  == x \div q
        rem == x - lo * q
    IN IF 2 * rem < q THEN lo
       ELSE IF 2 * rem > q THEN lo + 1
       ELSE IF lo % 2 = 0 THEN lo ELSE lo + 1

\* lines 613-622: one row per order_day, the money rounded to cents
GroupedRow(rows, d) ==
    LET day == {r \in rows : r.order_day = d}
    IN [order_day          |-> d,
        transaction_count  |-> SumCol(day, "transaction_count"),
        total_units        |-> SumCol(day, "total_units"),
        total_revenue_eur  |-> RoundDiv(SumCol(day, "total_revenue_eur"), 100),
        total_discount_eur |-> RoundDiv(SumCol(day, "total_discount_eur"), 100)]

RECURSIVE DescendingDays(_)
\* the days of D, latest first
DescendingDays(D) ==
    IF D = {} THEN <<>>
    ELSE <<SetMax(D)>> \o DescendingDays(D \ {SetMax(D)})

\* lines 613-625
GroupByDay(rows) ==
    LET seq == DescendingDays({r.order_day : r \in rows})
    IN [i \in 1..Len(seq) |-> GroupedRow(rows, seq[i])]

\* line 557: `except Exception` catches whatever yf.download raises
ExceptCatches(outcome) == TRUE

\* lines 525-566: the fetch of one currency's series; the except clause
\* and the empty frame both store the fallback constant
FetchRates(c) ==
    /\ pcX = "fetch"
    /\ c \in todo
    /\ IF yf[c].kind = "error" /\ ~ExceptCatches(yf[c])
       THEN /\ pcX' = "raised"
            /\ UNCHANGED <<todo, rates_by_currency_date>>
       ELSE /\ rates_by_currency_date' =
                   StoreRates(rates_by_currency_date, c, yf[c], df)
            /\ todo' = todo \ {c}
            /\ pcX' = pcX
    /\ UNCHANGED <<df, yf, df_copy, df_grouped, othersX>>

\* lines 569-610: every row converted at get_rate(date_str, currency)
ConvertRows ==
    /\ pcX = "fetch"
    /\ todo = {}
    /\ df_copy' = {ConvertRow(rates_by_currency_date, r) : r \in df}
    /\ pcX' = "convert"
    /\ UNCHANGED <<df, yf, todo, rates_by_currency_date, df_grouped, othersX>>

\* lines 613-627: group by date, round, sort, return
GroupAndReturn ==
    /\ pcX = "convert"
    /\ df_grouped' = GroupByDay(df_copy)
    /\ pcX' = "done"
    /\ UNCHANGED <<df, yf, todo, rates_by_currency_date, df_copy, othersX>>

NextX ==
    \/ \E c \in Currencies : FetchRates(c)
    \/ ConvertRows
    \/ GroupAndReturn

-----------------------------------------------------------------------------
(* Source Merger.                                                           *)
(* A frame is [columns, date_dtype, rows]; a row is a function from column  *)
(* names to cells; a cell that is NaN is a column missing from the row.     *)
(* A float that is a quotient (ecr) is the pair <<numerator, denominator>>, *)
(* taken exactly.                                                           *)

\* the first date of the two daily series: Monday 2024-04-29
FirstMergeDay == strptime(<<2024, 4, 29>>)
\* number of consecutive calendar dates the two series may hold
NMergeDays == 4

MergeDays == FirstMergeDay..(FirstMergeDay + NMergeDays - 1)

MagentoColumns ==
    {"order_day", "transaction_count", "total_units", "total_revenue_eur",
     "total_discount_eur"}

Ga4Columns == {"date", "total_revenue_usd", "transactions", "users", "sessions"}

\* a row of convert_currencies_and_group_vectorized's result (lines 613-622)
MagentoDayRow(d) ==
    [order_day          |-> d,
     transaction_count  |-> 2 + (d - FirstMergeDay),
     total_units        |-> 3 + (d - FirstMergeDay),
     total_revenue_eur  |-> 10050 + 125 * (d - FirstMergeDay),
     total_discount_eur |-> 500]

\* a row of fetch_ga4_kpi_data's result (lines 638-679); the first day has
\* no session
Ga4DayRow(d) ==
    [date              |-> d,
     total_revenue_usd |-> 9000,
     transactions      |-> 1 + (d - FirstMergeDay),
     users             |-> 150,
     sessions          |-> 200 * (d - FirstMergeDay)]

\* a pre-supplied daily conversion rate, in percent
SuppliedEcr(d) == <<3 + 2 * (d - FirstMergeDay), 2>>

\* pd.DataFrame(): no column, no row
NoFrame == [columns |-> {}, date_dtype |-> "object", rows |-> {}]

\* lines 708-712: pd.to_datetime on the caller's date column
ToDatetime(frame) == [frame EXCEPT !.date_dtype = "datetime64"]

\* line 715: DataFrame.rename(columns={from: to})
RenameColumn(r, from, to) ==
    [c \in (DOMAIN r \ {from}) \cup {to} |-> IF c = to THEN r[from] ELSE r[c]]

\* line 720
RowEcr(r) ==
    IF r["sessions"] > 0 THEN <<r["transactions"] * 100, r["sessions"]>>
    ELSE <<0, 1>>

\* lines 718-722: the ecr column added to the caller's frame
WithEcr(frame) ==
    IF "ecr" \in frame.columns THEN frame
    ELSE [frame EXCEPT
            !.columns = @ \cup {"ecr"},
            !.rows = {[c \in DOMAIN r \cup {"ecr"} |->
                          IF c = "ecr" THEN RowEcr(r) ELSE r[c]] : r \in @}]

\* df[[...]]
Project(rows, cols) == {[c \in cols |-> r[c]] : r \in rows}

InnerMerge(L, R, key) ==
    {[c \in DOMAIN l \cup DOMAIN r |-> IF c \in DOMAIN l THEN l[c] ELSE r[c]] :
        <<l, r>> \in {p \in L \X R : p[1][key] = p[2][key]}}

LeftMerge(L, R, key) ==
    InnerMerge(L, R, key) \cup {l \in L : \A r \in R : r[key] # l[key]}

\* lines 725-730: pd.merge(L, R, on=key, how='outer'); a row without a
\* partner keeps its own columns only (the others are NaN)
OuterMerge(L, R, key) ==
    {[c \in DOMAIN l \cup DOMAIN r |-> IF c \in DOMAIN l THEN l[c] ELSE r[c]] :
        <<l, r>> \in {p \in L \X R : p[1][key] = p[2][key]}}
    \cup {l \in L : \A r \in R : r[key] # l[key]}
    \cup {r \in R : \A l \in L : l[key] # r[key]}

RECURSIVE SortDescending(_, _)
\* line 733: sort_values(key, ascending=False)
SortDescending(rows, key) ==
    IF rows = {} THEN <<>>
    ELSE LET top == CHOOSE r \in rows : \A q \in rows : q[key] <= r[key]
         IN <<top>> \o SortDescending(rows \ {top}, key)

\* the 0 a NaN of column c becomes
ZeroOf(c) == IF c = "ecr" THEN <<0, 1>> ELSE 0

\* line 736: fillna(0)
FillNa(seq, cols) ==
    [i \in 1..Len(seq) |->
        [c \in cols |-> IF c \in DOMAIN seq[i] THEN seq[i][c] ELSE ZeroOf(c)]]

\* lines 692-738: the returned frame
merge_data_sources(magento, ga4) ==
    LET df_bq_renamed == {RenameColumn(r, "order_day", "date") : r \in magento.rows}
        right         == Project(WithEcr(ga4).rows, {"date", "sessions", "ecr", "users"})
        joined        == OuterMerge(df_bq_renamed, right, "date")
        cols          == ((magento.columns \ {"order_day"}) \cup {"date"})
                         \cup {"sessions", "ecr", "users"}
    IN FillNa(SortDescending(joined, "date"), cols)

\* the transactional frames: one row per order_day, at least one row
MagentoFrames ==
    {[columns |-> MagentoColumns, date_dtype |-> t,
      rows |-> {MagentoDayRow(d) : d \in D}] :
        t \in {"object", "datetime64"}, D \in (SUBSET MergeDays) \ {{}}}

\* the behavioral frames: one row per date, at least one row, with or
\* without a pre-supplied ecr column
Ga4Frames ==
    {[columns |-> Ga4Columns, date_dtype |-> "datetime64",
      rows |-> {Ga4DayRow(d) : d \in D}] : D \in (SUBSET MergeDays) \ {{}}}
    \cup
    {[columns |-> Ga4Columns \cup {"ecr"}, date_dtype |-> "object",
      rows |-> {[c \in Ga4Columns \cup {"ecr"} |->
                    IF c = "ecr" THEN SuppliedEcr(d) ELSE Ga4DayRow(d)[c]] :
                  d \in D}] : D \in (SUBSET MergeDays) \ {{}}}

\* one call of merge_data_sources(df_magento_eur, df_ga4); the date
\* conversions and the ecr column are written to the caller's frames
MergeDataSources ==
    /\ pcM = "call"
    /\ df_magento_eur' = ToDatetime(df_magento_eur)
    /\ df_ga4' = WithEcr(ToDatetime(df_ga4))
    /\ merged_df' = merge_data_sources(df_magento_eur, df_ga4)
    /\ pcM' = "done"
    /\ UNCHANGED othersM

NextM == MergeDataSources

-----------------------------------------------------------------------------
(* Weekly KPI Aggregator.                                                   *)
(* Window values and timeline values rounded to one decimal are integers    *)
(* in tenths; the counts (transaction_count, sessions) are integers.        *)
(* Rounding takes a tie on the exact value of the quotient.                 *)

\* the Monday of the week of the model's runs: 2024-05-13
KpiMonday == strptime(<<2024, 5, 13>>)

\* the run_date arguments tried: None, and a date on the Monday or the
\* Wednesday of that week
KpiRunDates ==
    {[kind |-> "none", ord |-> 0, hour |-> 0]}
    \cup [kind : {"date"}, ord : {KpiMonday, KpiMonday + 2}, hour : {0}]

\* the wall clock when the call starts: the Wednesday or the Sunday
KpiNowDays == {KpiMonday + 2, KpiMonday + 6}

\* by how many days the wall clock may advance between two reads of it
ClockTicks == {0, 1}

\* the dates the merged table may hold: one older than the 60-day horizon,
\* one of the earlier week, the Monday and the Sunday of the previous week,
\* and the Tuesday of the running week
KpiDays ==
    {KpiMonday - 70, KpiMonday - 10, KpiMonday - 7, KpiMonday - 1,
     KpiMonday + 1}

\* the rows a date may have: a zero-filled row, a day of sales, a day of
\* sales of which the behavioral source saw one transaction out of two
\* (its ecr is 1 / 200 * 100), a day of many orders of 50.00 each (100 of
\* them from the previous week on, 80 before), a day whose refunds exceed
\* its sales
KpiRow(d, kind) ==
    IF kind = "sale"
    THEN [date |-> d, transaction_count |-> 2, total_units |-> 3,
          total_revenue_eur |-> 10050, total_discount_eur |-> 500,
          sessions |-> 200, ecr |-> <<1, 1>>, users |-> 150]
    ELSE IF kind = "bulk"
    THEN [date |-> d,
          transaction_count |-> IF d >= KpiMonday - 7 THEN 100 ELSE 80,
          total_units |-> IF d >= KpiMonday - 7 THEN 150 ELSE 120,
          total_revenue_eur |-> IF d >= KpiMonday - 7 THEN 500000 ELSE 400000,
          total_discount_eur |-> 0,
          sessions |-> IF d >= KpiMonday - 7 THEN 5000 ELSE 4000,
          ecr |-> <<2, 1>>, users |-> 3000]
    ELSE IF kind = "undertracked"
    THEN [date |-> d, transaction_count |-> 2, total_units |-> 2,
          total_revenue_eur |-> 8000, total_discount_eur |-> 0,
          sessions |-> 200, ecr |-> <<1, 2>>, users |-> 150]
    ELSE IF kind = "refund"
    THEN [date |-> d, transaction_count |-> 0, total_units |-> 0,
          total_revenue_eur |-> 0 - 500, total_discount_eur |-> 0,
          sessions |-> 40, ecr |-> <<0, 1>>, users |-> 30]
    ELSE [date |-> d, transaction_count |-> 0, total_units |-> 0,
          total_revenue_eur |-> 0, total_discount_eur |-> 0,
          sessions |-> 0, ecr |-> <<0, 1>>, users |-> 0]

\* the merged tables of a run whose reference date is ref: one row per
\* date, no date after ref
MergedTables(ref) ==
    LET days == {d \in KpiDays : d <= ref}
    IN {{KpiRow(d, f[d]) : d \in {e \in days : f[e] # "absent"}} :
            f \in [days -> {"absent", "zero", "sale", "bulk", "undertracked",
                          "refund"}]}

\* lines 790-794
PreviousWeekData(rows, date_periods) ==
    {r \in rows :
        /\ r["date"] >= strptime(date_periods.analysis_period.start)
        /\ r["date"] <= strptime(date_periods.analysis_period.end)}

EarlierWeekDataSameMask(rows, date_periods) ==
    PreviousWeekData(rows, date_periods)

\* lines 797-801
EarlierWeekData(rows, date_periods) ==
    {r \in rows :
        /\ r["date"] >= strptime(date_periods.previous_period.start)
        /\ r["date"] <= strptime(date_periods.previous_period.end)}

\* lines 804-806: the rows of the last 60 days
TimelineData(rows, d) == {r \in rows : r["date"] >= d - 60}

\* x / q rounded to the nearest integer, for q # 0
RoundRatio(x, q) == IF q > 0 THEN RoundDiv(x, q) ELSE RoundDiv(0 - x, 0 - q)

RECURSIVE WeightedEcrUnweighted(_)
WeightedEcrUnweighted(rows) ==
    IF rows = {} THEN <<0, 1>>
    ELSE LET r    == CHOOSE x \in rows : TRUE
             rest == WeightedEcrUnweighted(rows \ {r})
         IN <<r["ecr"][1] * rest[2] + rest[1] * r["ecr"][2],
              r["ecr"][2] * rest[2]>>

RECURSIVE WeightedEcr(_)
\* line 841: (data['ecr'] * data['sessions']).sum(), as a pair
WeightedEcr(rows) ==
    IF rows = {} THEN <<0, 1>>
    ELSE LET r    == CHOOSE x \in rows : TRUE
             rest == WeightedEcr(rows \ {r})
         IN <<r["ecr"][1] * r["sessions"] * rest[2] + rest[1] * r["ecr"][2],
              r["ecr"][2] * rest[2]>>

KpiNames ==
    {"transaction_count", "total_revenue_eur", "aov_eur", "units_per_order",
     "sessions", "ecr"}

\* lines 814-857 (and 860-903): the six KPIs of one window
WindowKpis(data) ==
    IF data = {}
    THEN [k \in KpiNames |-> 0]
    ELSE LET total_transactions == SumCol(data, "transaction_count")
             total_revenue      == SumCol(data, "total_revenue_eur")
             total_units        == SumCol(data, "total_units")
             total_sessions     == SumCol(data, "sessions")
             with_ecr           == {r \in data : "ecr" \in DOMAIN r}
             weighted           == WeightedEcr(with_ecr)
         IN [transaction_count |-> total_transactions,
             total_revenue_eur |-> RoundDiv(total_revenue, 10),
             aov_eur           |-> IF total_transactions > 0
                                   THEN RoundDiv(total_revenue, 10 * total_transactions)
                                   ELSE 0,
             units_per_order   |-> IF total_transactions > 0
                                   THEN RoundDiv(10 * total_units, total_transactions)
                                   ELSE 0,
             sessions          |-> total_sessions,
             ecr               |-> IF total_sessions <= 0 THEN 0
                                   ELSE IF with_ecr # {}
                                   THEN RoundDiv(10 * weighted[1],
                                                 weighted[2] * total_sessions)
                                   ELSE RoundDiv(1000 * total_transactions,
                                                 total_sessions)]

\* lines 908-912: float('inf') is [inf |-> TRUE]
PercentChange(current, prior) ==
    IF prior = 0
    THEN [inf |-> current > 0, val |-> 0]
    ELSE [inf |-> FALSE, val |-> RoundRatio(1000 * (current - prior), prior)]

TimelineValueRevenueOnly(kpi, r, has_ecr) == RoundDiv(r["total_revenue_eur"], 10)

\* lines 917-984: the value of one KPI for one day of the timeline
TimelineValue(kpi, r, has_ecr) ==
    IF kpi = "transaction_count" THEN r["transaction_count"]
    ELSE IF kpi = "sessions" THEN r["sessions"]
    ELSE IF kpi = "total_revenue_eur" THEN RoundDiv(r["total_revenue_eur"], 10)
    ELSE IF kpi = "ecr"
    THEN (IF has_ecr
          THEN RoundDiv(10 * r["ecr"][1], r["ecr"][2])
          ELSE IF r["sessions"] > 0
          THEN RoundDiv(1000 * r["transaction_count"], r["sessions"])
          ELSE 0)
    ELSE IF kpi = "aov_eur"
    THEN (IF r["transaction_count"] > 0
          THEN RoundDiv(r["total_revenue_eur"], 10 * r["transaction_count"])
          ELSE 0)
    ELSE (IF r["transaction_count"] > 0
          THEN RoundDiv(10 * r["total_units"], r["transaction_count"])
          ELSE 0)

RECURSIVE SortAscending(_, _)
\* line 806: sort_values('date')
SortAscending(rows, key) ==
    IF rows = {} THEN <<>>
    ELSE LET low == CHOOSE r \in rows : \A q \in rows : r[key] <= q[key]
         IN <<low>> \o SortAscending(rows \ {low}, key)

\* lines 914-984: the [date, value] pairs of one KPI
Timeline(kpi, timeline_data) ==
    LET seq     == SortAscending(timeline_data, "date")
        has_ecr == \E r \in timeline_data : "ecr" \in DOMAIN r
    IN [i \in 1..Len(seq) |->
           <<strftime(seq[i]["date"]), TimelineValue(kpi, seq[i], has_ecr)>>]

\* lines 742-1030; clock1 is the clock read by get_analysis_periods
\* (line 767), clock2 the clock read at line 777
analyze_weekly_kpis(rows, rd, clock1, clock2) ==
    LET date_periods       == get_analysis_periods(rd, clock1)
        d                  == NormaliseRunDate(rd, clock2)
        previous_week_kpis == WindowKpis(PreviousWeekData(rows, date_periods))
        earlier_week_kpis  == WindowKpis(EarlierWeekData(rows, date_periods))
        timeline_data      == TimelineData(rows, d)
    IN [date_ranges |-> date_periods,
        kpis |-> [k \in KpiNames |->
                    [previous_week  |-> previous_week_kpis[k],
                     earlier_week   |-> earlier_week_kpis[k],
                     percent_change |-> PercentChange(previous_week_kpis[k],
                                                      earlier_week_kpis[k]),
                     timeline       |-> Timeline(k, timeline_data)]]]

\* one call of analyze_weekly_kpis(df_merged, run_date); the clock may
\* pass midnight between its two reads
AnalyzeWeeklyKpis ==
    /\ pcK = "call"
    /\ \E tick \in ClockTicks :
           /\ kpi_data' = analyze_weekly_kpis(df_merged, run_date, now, now + tick)
           /\ now' = now + tick
    /\ pcK' = "done"
    /\ UNCHANGED <<run_date, df_merged, othersK>>

NextK == AnalyzeWeeklyKpis

-----------------------------------------------------------------------------
(* Coverage Reconciler: the steps of lines 2825-2830.                       *)
(* A coverage rate of the feed and of the weekly frame is the exact         *)
(* quotient <<numerator, denominator>>, in percent; a rate or a revenue     *)
(* rounded to one decimal is an integer in tenths.                          *)

\* the run_date arguments tried: None (as the run passes it) and the
\* Wednesday 2024-05-15
CovRunDates ==
    {[kind |-> "none", ord |-> 0, hour |-> 0],
     [kind |-> "date", ord |-> KpiMonday + 2, hour |-> 0]}

\* the wall clock when the coverage steps start
CovNowDays == {KpiMonday + 2, KpiMonday + 6}

\* the dates the reconciliation feed may hold: two of the earlier week,
\* one of the previous week, one of the running week
CovDays == {KpiMonday - 10, KpiMonday - 9, KpiMonday - 3, KpiMonday + 1}

CoverageColumns ==
    {"order_date", "magento_transactions", "ga4_transactions",
     "transaction_coverage_rate", "magento_revenue", "ga4_revenue",
     "revenue_coverage_rate"}

\* SAFE_DIVIDE(x, y) * 100 (lines 2146-2155) is NULL when y is 0: the row
\* then has no such cell
CoverageRow(d, mt, gt, mr, gr) ==
    LET base == [order_date |-> d, magento_transactions |-> mt,
                 ga4_transactions |-> gt, magento_revenue |-> mr,
                 ga4_revenue |-> gr]
        cols == {"order_date", "magento_transactions", "ga4_transactions",
                 "magento_revenue", "ga4_revenue"}
                \cup (IF mt # 0 THEN {"transaction_coverage_rate"} ELSE {})
                \cup (IF mr # 0 THEN {"revenue_coverage_rate"} ELSE {})
    IN [c \in cols |->
           IF c = "transaction_coverage_rate" THEN <<100 * gt, mt>>
           ELSE IF c = "revenue_coverage_rate" THEN <<100 * gr, mr>>
           ELSE base[c]]

\* the rows a date may have (lines 2141-2158): a day most of whose orders
\* are tracked, a day few of whose orders are tracked, a day whose only
\* order is worth 0.04, a day with tracked orders and no order of the
\* primary source; and days whose coverage is 50, 80 and 120 percent
CoverageDayRow(d, kind) ==
    IF kind = "tracked" THEN CoverageRow(d, 10, 9, 100025, 90010)
    ELSE IF kind = "lost" THEN CoverageRow(d, 10, 4, 100025, 40000)
    ELSE IF kind = "tiny" THEN CoverageRow(d, 1, 1, 4, 4)
    ELSE IF kind = "half" THEN CoverageRow(d, 10, 5, 100000, 50000)
    ELSE IF kind = "most" THEN CoverageRow(d, 10, 8, 100000, 80000)
    ELSE IF kind = "over" THEN CoverageRow(d, 10, 12, 100000, 120000)
    ELSE CoverageRow(d, 0, 5, 0, 5000)

\* the kinds of row a date may have: the days of 50, 80 and 120 percent
\* are tried on the day of the previous week
CoverageKinds(d) ==
    {"absent", "tracked", "lost", "tiny", "noprimary"}
    \cup (IF d = KpiMonday - 3 THEN {"half", "most", "over"} ELSE {})

\* the feeds of a run whose reference date is ref
CoverageFeeds(ref) ==
    LET days == {d \in CovDays : d <= ref}
    IN {[columns |-> CoverageColumns, date_dtype |-> t,
         rows |-> {CoverageDayRow(d, f[d]) : d \in {e \in days : f[e] # "absent"}}] :
            t \in {"object"},
            f \in {g \in [days -> {"absent", "tracked", "lost", "tiny",
                                   "noprimary", "half", "most", "over"}] :
                     \A d \in days : g[d] \in CoverageKinds(d)}}

\* lines 2201-2212: the rates and the revenues rounded
RoundCoverageRow(r) ==
    [c \in DOMAIN r |->
        IF c \in {"transaction_coverage_rate", "revenue_coverage_rate"}
        THEN RoundDiv(10 * r[c][1], r[c][2])
        ELSE IF c \in {"magento_revenue", "ga4_revenue"}
        THEN RoundDiv(r[c], 10)
        ELSE r[c]]

CleanWithoutDropna(frame, rd, clock) ==
    LET date_periods      == get_analysis_periods(rd, clock)
        analysis_end_date == strptime(date_periods.analysis_period.end)
    IN {RoundCoverageRow(r) :
           r \in {q \in frame.rows : q["order_date"] <= analysis_end_date}}

\* lines 2173-2226: the returned rows
clean_coverage_data(frame, rd, clock) ==
    LET date_periods      == get_analysis_periods(rd, clock)
        analysis_end_date == strptime(date_periods.analysis_period.end)
        filtered_df       == {RoundCoverageRow(r) :
                                 r \in {q \in frame.rows :
                                          q["order_date"] <= analysis_end_date}}
        columns_to_check  == CoverageColumns \cap frame.columns
    IN \* dropna(subset=columns_to_check)
       {r \in filtered_df : columns_to_check \ {"order_date"} \subseteq DOMAIN r}

\* lines 2278-2296 (and 2305-2323): the aggregate of one week
WeekAggregate(data, monday, sunday) ==
    LET mt == SumCol(data, "magento_transactions")
        gt == SumCol(data, "ga4_transactions")
        mr == SumCol(data, "magento_revenue")
        gr == SumCol(data, "ga4_revenue")
    IN [week_start |-> monday,
        week_end   |-> sunday,
        magento_transactions |-> mt,
        ga4_transactions     |-> gt,
        magento_revenue      |-> mr,
        ga4_revenue          |-> gr,
        transaction_coverage_rate |-> IF mt > 0 THEN <<100 * gt, mt>> ELSE <<0, 1>>,
        revenue_coverage_rate     |-> IF mr > 0 THEN <<100 * gr, mr>> ELSE <<0, 1>>]

\* lines 2276-2300 (and 2303-2327): a week is appended only when it has rows
WeekEntry(data, monday, sunday) ==
    IF data # {} THEN <<WeekAggregate(data, monday, sunday)>> ELSE <<>>

\* lines 2230-2332: the returned frame, the previous week first
calculate_weekly_coverage(rows, rd, clock) ==
    LET date_periods    == get_analysis_periods(rd, clock)
        previous_monday == strptime(date_periods.analysis_period.start)
        previous_sunday == strptime(date_periods.analysis_period.end)
        earlier_monday  == strptime(date_periods.previous_period.start)
        earlier_sunday  == strptime(date_periods.previous_period.end)
        previous_week_data == {r \in rows : /\ r["order_date"] >= previous_monday
                                            /\ r["order_date"] <= previous_sunday}
        earlier_week_data  == {r \in rows : /\ r["order_date"] >= earlier_monday
                                            /\ r["order_date"] <= earlier_sunday}
    IN WeekEntry(previous_week_data, previous_monday, previous_sunday)
       \o WeekEntry(earlier_week_data, earlier_monday, earlier_sunday)

\* a < b for two quotients with positive denominators
RatLess(a, b) == a[1] * b[2] < b[1] * a[2]

CoverageStatusInclusive(value) ==
    IF ~RatLess(<<50, 1>>, value) THEN "CRITICAL"
    ELSE IF ~RatLess(<<80, 1>>, value) THEN "WARNING"
    ELSE "GOOD"

\* lines 2729-2737
CoverageStatus(value) ==
    IF RatLess(value, <<50, 1>>) THEN "CRITICAL"
    ELSE IF RatLess(value, <<80, 1>>) THEN "WARNING"
    ELSE "GOOD"

\* lines 2573-2583: the current week is the one with the latest week_start
ScorecardOf(weekly) ==
    LET first    == CHOOSE i \in 1..Len(weekly) :
                        \A j \in 1..Len(weekly) :
                            weekly[j].week_start <= weekly[i].week_start
        second   == CHOOSE i \in (1..Len(weekly)) \ {first} :
                        \A j \in (1..Len(weekly)) \ {first} :
                            weekly[j].week_start <= weekly[i].week_start
        current_value  == weekly[first].transaction_coverage_rate
        previous_value == weekly[second].transaction_coverage_rate
    IN [shown  |-> "card",
        status |-> CoverageStatus(current_value),
        value  |-> current_value,
        percent_change |->
            IF RatLess(<<0, 1>>, previous_value)
            THEN [inf |-> FALSE,
                  val |-> <<100 * (current_value[1] * previous_value[2]
                                   - previous_value[1] * current_value[2]),
                            previous_value[1] * current_value[2]>>]
            ELSE [inf |-> RatLess(<<0, 1>>, current_value), val |-> <<0, 1>>]]

NoScorecard(shown) ==
    [shown |-> shown, status |-> "", value |-> <<0, 1>>,
     percent_change |-> [inf |-> FALSE, val |-> <<0, 1>>]]

\* line 2826: df_coverage_clean = clean_coverage_data(df_coverage); the
\* date column of the caller's frame is converted in place (lines 2195-2196)
CleanCoverageData ==
    /\ pcC = "clean"
    /\ \E tick \in ClockTicks :
           /\ now' = now + tick
           /\ df_coverage_clean' = clean_coverage_data(df_coverage, run_date, now + tick)
    /\ df_coverage' = ToDatetime(df_coverage)
    /\ pcC' = "weekly"
    /\ UNCHANGED <<run_date, df_weekly, claude, coverage_analysis, scorecard, othersC>>

\* line 2827: df_weekly = calculate_weekly_coverage(df_coverage_clean)
CalculateWeeklyCoverage ==
    /\ pcC = "weekly"
    /\ \E tick \in ClockTicks :
           /\ now' = now + tick
           /\ df_weekly' = calculate_weekly_coverage(df_coverage_clean, run_date, now + tick)
    /\ pcC' = "commentary"
    /\ UNCHANGED <<run_date, df_coverage, df_coverage_clean, claude,
                   coverage_analysis, scorecard, othersC>>

\* line 2828, lines 2354-2357: fewer than two weeks, no commentary is asked
CommentaryInsufficient ==
    /\ pcC = "commentary"
    /\ Len(df_weekly) < 2
    /\ coverage_analysis' = "Insufficient data for weekly comparison analysis"
    /\ pcC' = "chart"
    /\ UNCHANGED <<varsE, df_coverage, df_coverage_clean, df_weekly, claude,
                   scorecard, othersC>>

\* line 2828, lines 2359-2508: the commentary service answers
CommentaryAnswered ==
    /\ pcC = "commentary"
    /\ Len(df_weekly) >= 2
    /\ claude = "ok"
    /\ \E tick \in ClockTicks : now' = now + tick
    /\ coverage_analysis' = "analysis"
    /\ pcC' = "chart"
    /\ UNCHANGED <<run_date, df_coverage, df_coverage_clean, df_weekly, claude,
                   scorecard, othersC>>

\* lines 2494-2502: client.messages.create raises, nothing catches it
CommentaryRaises ==
    /\ pcC = "commentary"
    /\ Len(df_weekly) >= 2
    /\ claude = "error"
    /\ \E tick \in ClockTicks : now' = now + tick
    /\ pcC' = "raised"
    /\ UNCHANGED <<run_date, df_coverage, df_coverage_clean, df_weekly, claude,
                   coverage_analysis, scorecard, othersC>>

\* line 2830, lines 2571-2599: the scorecard, or the note that weekly data
\* is not available
CreateCoverageVisualization ==
    /\ pcC = "chart"
    /\ \E tick \in ClockTicks : now' = now + tick
    /\ scorecard' = IF Len(df_weekly) >= 2 THEN ScorecardOf(df_weekly)
                    ELSE NoScorecard("Weekly data not available")
    /\ pcC' = "done"
    /\ UNCHANGED <<run_date, df_coverage, df_coverage_clean, df_weekly, claude,
                   coverage_analysis, othersC>>

NextC ==
    \/ CleanCoverageData
    \/ CalculateWeeklyCoverage
    \/ CommentaryInsufficient
    \/ CommentaryAnswered
    \/ CommentaryRaises
    \/ CreateCoverageVisualization

-----------------------------------------------------------------------------
(* Top-Entity Ranker: analyze_top_products, lines 1571-1811.                *)
(* A share rounded to one decimal is an integer number of tenths of a       *)
(* percent.                                                                 *)

\* the run_date arguments tried: None and the Wednesday 2024-05-15
ProductRunDates ==
    {[kind |-> "none", ord |-> 0, hour |-> 0],
     [kind |-> "date", ord |-> KpiMonday + 2, hour |-> 0]}

\* a day of the earlier week and a day of the previous week
ProductPriorDay   == KpiMonday - 10
ProductCurrentDay == KpiMonday - 3

\* the (date, product_name, product_id) groups the feed may have a row for,
\* and the revenues (in cents) such a row may carry: product "A" is sold
\* under two ids in the previous week
ProductCells ==
    {<<ProductCurrentDay, "A", 1>>, <<ProductCurrentDay, "A", 2>>,
     <<ProductCurrentDay, "B", 1>>, <<ProductCurrentDay, "C", 1>>,
     <<ProductPriorDay, "A", 1>>, <<ProductPriorDay, "B", 1>>}

CellRevenues(cell) ==
    IF cell[1] = ProductPriorDay THEN {0, 2000}
    ELSE IF cell[3] = 2 THEN {500}
    ELSE {0, 1000, 3000}

\* a week of six products, the last two with the same revenue
ManyProductsFrame ==
    {[date |-> ProductCurrentDay, product_name |-> p[1], product_id |-> 1,
      revenue |-> p[2]] :
        p \in {<<"A", 3000>>, <<"B", 2500>>, <<"C", 2000>>, <<"D", 1500>>,
               <<"E", 1000>>, <<"F", 1000>>}}

\* lines 1524-1556: the frames fetch_product_data may return; the purchase
\* events it sums have no negative revenue
ProductFrames ==
    {ManyProductsFrame} \cup
    {{[date |-> cell[1], product_name |-> cell[2], product_id |-> cell[3],
       revenue |-> f[cell]] : cell \in {c \in ProductCells : f[c] # -1}} :
        f \in {g \in [ProductCells -> {-1, 0, 500, 1000, 2000, 3000}] :
                 \A c \in ProductCells : g[c] = -1 \/ g[c] \in CellRevenues(c)}}

\* the top_n arguments tried: integers, and a value that is not an integer
TopNArgs ==
    [kind : {"int"}, val : {-1, 0, 1, 2, 5}] \cup {[kind |-> "other", val |-> 0]}

EffectiveTopNFallbackOne(n) == IF n.kind # "int" \/ n.val <= 0 THEN 1 ELSE n.val

\* lines 1594-1597
EffectiveTopN(n) == IF n.kind # "int" \/ n.val <= 0 THEN 5 ELSE n.val

\* groupby('product_name')['revenue'].sum(): the names, and the sum of one
ProductNames(rows) == {r["product_name"] : r \in rows}
ProductTotal(rows, name) ==
    SumCol({r \in rows : r["product_name"] = name}, "revenue")

\* groupby('date_only')['revenue'].sum()
ProductDates(rows) == {r["date"] : r \in rows}
DailyTotal(rows, d) == SumCol({r \in rows : r["date"] = d}, "revenue")

\* line 1667: the orders sort_values('revenue', ascending=False) may give;
\* the order of two products with equal revenue is not fixed
RevenueOrders(rows) ==
    LET names == ProductNames(rows)
        n     == Cardinality(names)
    IN {s \in [1..n -> names] :
          /\ \A i, j \in 1..n : i # j => s[i] # s[j]
          /\ \A i \in 1..n : \A j \in i..n :
                 ProductTotal(rows, s[i]) >= ProductTotal(rows, s[j])}

\* line 1667: head(top_n)
HeadN(s, n) == [i \in 1..(IF n < Len(s) THEN n ELSE Len(s)) |-> s[i]]

ProductPercentChangeNoSentinel(analysis_revenue, previous_revenue) ==
    [inf |-> FALSE, val |-> 0]

\* lines 1704-1708
ProductPercentChange(analysis_revenue, previous_revenue) ==
    IF previous_revenue > 0
    THEN [inf |-> FALSE,
          val |-> RoundDiv(1000 * (analysis_revenue - previous_revenue),
                           previous_revenue)]
    ELSE [inf |-> analysis_revenue > 0, val |-> 0]

\* -1 stands for the ZeroDivisionError of an unguarded division
SharePctUnguarded(part, total) ==
    IF total = 0 THEN -1 ELSE RoundDiv(1000 * part, total)

\* lines 1711-1718 and 1738-1741: part / total * 100 to one decimal, 0.0
\* unless the total is positive
SharePct(part, total) ==
    IF total > 0 THEN RoundDiv(1000 * part, total) ELSE 0

\* lines 1722-1745: the [date, share of the day's total] pairs of a product
DailyShares(timeline_data, name) ==
    LET days == SortAscending({[date |-> d] : d \in ProductDates(timeline_data)},
                              "date")
    IN [i \in 1..Len(days) |->
          LET d == days[i]["date"]
          IN <<strftime(d),
               SharePct(SumCol({r \in timeline_data :
                                   r["date"] = d /\ r["product_name"] = name},
                               "revenue"),
                        DailyTotal(timeline_data, d))>>]

ShareTotalOfTopOnly(analysis_product_totals, names) ==
    SumCol({r \in analysis_product_totals : r["product_name"] \in names},
           "revenue")

\* line 1664: the total the shares are taken of, analysis_total_revenue
ShareTotal(analysis_product_totals, names) ==
    SumCol(analysis_product_totals, "revenue")

\* lines 1571-1811; order is the order line 1667 sorted the products in
analyze_top_products(rows, rd, clock, n, order) ==
    LET d              == NormaliseRunDate(rd, clock)
        date_periods   == get_analysis_periods(
                              [kind |-> "date", ord |-> d, hour |-> 0], clock)
        analysis_start == strptime(date_periods.analysis_period.start)
        analysis_end   == strptime(date_periods.analysis_period.end)
        previous_start == strptime(date_periods.previous_period.start)
        previous_end   == strptime(date_periods.previous_period.end)
        analysis_data  == {r \in rows : r["date"] >= analysis_start
                                        /\ r["date"] <= analysis_end}
        previous_data  == {r \in rows : r["date"] >= previous_start
                                        /\ r["date"] <= previous_end}
        timeline_data  == {r \in rows : r["date"] >= d - 60}
        top_product_names      == HeadN(order, EffectiveTopN(n))
        names == {top_product_names[i] : i \in 1..Len(top_product_names)}
        analysis_total_revenue == ShareTotal(analysis_data, names)
        previous_total_revenue == SumCol(previous_data, "revenue")
    IN [date_ranges |-> date_periods,
        top_product_names |-> top_product_names,
        total_revenue |-> [previous_week |-> RoundDiv(analysis_total_revenue, 10),
                           earlier_week  |-> RoundDiv(previous_total_revenue, 10)],
        kpis |-> [name \in names |->
            LET analysis_revenue == ProductTotal(analysis_data, name)
                previous_revenue == ProductTotal(previous_data, name)
            IN [previous_week_revenue_eur |-> RoundDiv(analysis_revenue, 10),
                earlier_week_revenue_eur  |-> RoundDiv(previous_revenue, 10),
                percent_change |-> ProductPercentChange(analysis_revenue,
                                                        previous_revenue),
                revenue_eur_share_pct |-> SharePct(analysis_revenue,
                                                   analysis_total_revenue),
                earlier_revenue_eur_share_pctt |-> SharePct(previous_revenue,
                                                            previous_total_revenue),
                daily_share_pct |-> DailyShares(timeline_data, name)]]]

\* the rows of the previous week, as the call sees them
AnalysisData(rows, rd, clock) ==
    LET d == NormaliseRunDate(rd, clock)
        p == get_analysis_periods([kind |-> "date", ord |-> d, hour |-> 0], clock)
    IN {r \in rows : /\ r["date"] >= strptime(p.analysis_period.start)
                     /\ r["date"] <= strptime(p.analysis_period.end)}

\* one call of analyze_top_products(df_product, run_date, top_n)
AnalyzeTopProducts ==
    /\ pcT = "call"
    /\ \E order \in RevenueOrders(AnalysisData(df_product, run_date, now)) :
           product_data' = analyze_top_products(df_product, run_date, now,
                                                top_n, order)
    /\ pcT' = "done"
    /\ UNCHANGED <<varsE, df_product, top_n, total_revenue_change, othersT>>

\* lines 1997-2002 of analyze_top_products_with_claude: the percent change
\* of the two window totals, which are rounded to one decimal (1684-1685)
TotalRevenueChange(total_revenue) ==
    IF total_revenue.earlier_week > 0
    THEN [inf |-> FALSE,
          val |-> RoundDiv(1000 * (total_revenue.previous_week
                                   - total_revenue.earlier_week),
                           total_revenue.earlier_week)]
    ELSE [inf |-> TRUE, val |-> 0]

\* line 2822: analyze_top_products_with_claude is called with the result of
\* analyze_top_products and computes the change for its prompt (line 2069)
ComputeTotalRevenueChange ==
    /\ pcT = "done"
    /\ total_revenue_change' = TotalRevenueChange(product_data.total_revenue)
    /\ pcT' = "prompt"
    /\ UNCHANGED <<varsE, df_product, top_n, product_data, othersT>>

NextT ==
    \/ AnalyzeTopProducts
    \/ ComputeTotalRevenueChange

-----------------------------------------------------------------------------
(* Publishing: lines 3832-3932. The document is created, then the chat      *)
(* report is sent, one send_slack_report_with_image call after the other.   *)

\* how a request to the document or the chat service may end: it succeeds,
\* the service answers that the rate limit is hit, the service answers with
\* another error, or the request raises something else (no connection)
PublishOutcomes == {"ok", "rate_limited", "api_error", "exception"}

\* lines 3889-3932: the calls of send_slack_report_with_image, in order,
\* each with the requests it makes (title, file, text)
Send(section, title, plot, text) ==
    [section |-> section,
     requests |-> (IF title THEN <<"title">> ELSE <<>>)
                  \o (IF plot THEN <<"file">> ELSE <<>>)
                  \o (IF text THEN <<"text">> ELSE <<>>)]

Blank == Send("blank", FALSE, FALSE, TRUE)

SlackSections ==
    <<"total_revenue_eur", "transaction_count", "sessions", "ecr", "aov_eur",
      "units_per_order">>

Sends ==
    <<Send("intro", FALSE, FALSE, TRUE), Blank,
      Send("news", TRUE, FALSE, TRUE), Blank>>
    \o [i \in 1..(2 * Len(SlackSections)) |->
           IF i % 2 = 1 THEN Send(SlackSections[(i + 1) \div 2], TRUE, TRUE, TRUE)
           ELSE Blank]
    \o <<Send("products", TRUE, TRUE, TRUE), Blank,
         Send("coverage", TRUE, TRUE, TRUE), Blank,
         Send("link", FALSE, FALSE, TRUE), Blank>>

\* the first request that does not succeed, Len(outs) + 1 if all do
FirstFailure(outs) ==
    IF \A i \in 1..Len(outs) : outs[i] = "ok" THEN Len(outs) + 1
    ELSE CHOOSE i \in 1..Len(outs) :
             /\ outs[i] # "ok"
             /\ \A j \in 1..(i - 1) : outs[j] = "ok"

\* lines 3054-3829: the document is created; any exception, a rate limit
\* included, is printed and None is returned (lines 3825-3829)
CreateDocument ==
    /\ pcS = "document"
    /\ \E out \in PublishOutcomes :
           /\ doc_id' = IF out = "ok" THEN "id" ELSE "None"
           /\ cause' = IF out = "ok" THEN "none" ELSE out
           /\ ret' = IF out = "ok" THEN "id" ELSE "None"
    /\ attempts' = 1
    /\ pcS' = "chat"
    /\ UNCHANGED <<next_send, posted, othersS>>

\* lines 3850-3887: one call of send_slack_report_with_image; each request
\* is issued once, a SlackApiError ends the call with False, any other
\* exception leaves the function
SendSlackReport ==
    /\ pcS = "chat"
    /\ next_send <= Len(Sends)
    /\ LET requests == Sends[next_send].requests
       IN \E outs \in [1..Len(requests) -> PublishOutcomes] :
              LET k == FirstFailure(outs)
              IN /\ posted' = posted + (k - 1)
                 /\ attempts' = 1
                 /\ IF k > Len(requests)
                    THEN /\ ret' = "True"
                         /\ cause' = "none"
                         /\ pcS' = IF next_send = Len(Sends) THEN "done" ELSE "chat"
                    ELSE IF outs[k] = "exception"
                    THEN /\ ret' = "raised"
                         /\ cause' = "exception"
                         /\ pcS' = "raised"
                    ELSE /\ ret' = "False"
                         /\ cause' = outs[k]
                         /\ pcS' = IF next_send = Len(Sends) THEN "done" ELSE "chat"
    /\ next_send' = next_send + 1
    /\ UNCHANGED <<doc_id, othersS>>

NextS == CreateDocument \/ SendSlackReport

-----------------------------------------------------------------------------
(* The commentary steps of the run, lines 2802-2830 and 3832-3932, in the   *)
(* order of the script; the figures the texts are about are left out.       *)

\* line 1064
all_kpis ==
    <<"transaction_count", "total_revenue_eur", "aov_eur", "units_per_order",
      "sessions", "ecr">>

\* the sections that ask the commentary service for a text
CommentarySections ==
    {"news", "products", "coverage"} \cup {all_kpis[i] : i \in 1..Len(all_kpis)}

\* what the run makes besides the texts
AllArtefacts ==
    {"kpi_charts", "product_chart", "coverage_chart", "document", "chat"}

\* the text a section holds when its except branch has run: lines 420-422,
\* 1207-1209, 2118-2120
FailurePlaceholder(section) ==
    IF section = "news" THEN "Error calling AI API"
    ELSE IF section = "products"
    THEN "Error: Could not analyze top products performance"
    ELSE "Error: Could not analyze KPI"

\* client.messages.create inside try / except Exception: lines 395-422,
\* 1186-1209, 2100-2120
CommentaryText(section, outcome) ==
    IF outcome = "ok" THEN "analysis" ELSE FailurePlaceholder(section)

\* line 2802: news_report = build_news_summary(...)
BuildNewsSummary ==
    /\ pcR = "news"
    /\ report_texts' = [report_texts EXCEPT
                           !["news"] = CommentaryText("news", service["news"])]
    /\ kpis_to_analyze' = all_kpis
    /\ pcR' = "kpis"
    /\ UNCHANGED <<service, weeks, artefacts, othersR>>

\* line 2812, lines 1109-1209: one turn of the loop of
\* analyze_kpis_with_claude
AnalyzeKpiWithClaude ==
    /\ pcR = "kpis"
    /\ kpis_to_analyze # <<>>
    /\ LET kpi_name == Head(kpis_to_analyze)
       IN report_texts' = [report_texts EXCEPT
                              ![kpi_name] = CommentaryText(kpi_name,
                                                           service[kpi_name])]
    /\ kpis_to_analyze' = Tail(kpis_to_analyze)
    /\ UNCHANGED <<pcR, service, weeks, artefacts, othersR>>

\* lines 2815 and 2821: the loop is over; create_kpi_scorecard_with_timeline
\* and create_product_comparison_chart
CreateKpiAndProductCharts ==
    /\ pcR = "kpis"
    /\ kpis_to_analyze = <<>>
    /\ artefacts' = artefacts \cup {"kpi_charts", "product_chart"}
    /\ pcR' = "products"
    /\ UNCHANGED <<service, weeks, kpis_to_analyze, report_texts, othersR>>

\* line 2822: product_analysis = analyze_top_products_with_claude(...)
AnalyzeTopProductsWithClaude ==
    /\ pcR = "products"
    /\ report_texts' = [report_texts EXCEPT
                           !["products"] = CommentaryText("products",
                                                          service["products"])]
    /\ pcR' = "coverage"
    /\ UNCHANGED <<service, weeks, kpis_to_analyze, artefacts, othersR>>

\* line 2828, lines 2354-2357: fewer than two weeks, the service is not asked
CoverageCommentaryInsufficient ==
    /\ pcR = "coverage"
    /\ weeks < 2
    /\ report_texts' = [report_texts EXCEPT !["coverage"] =
                           "Insufficient data for weekly comparison analysis"]
    /\ pcR' = "coverage_chart"
    /\ UNCHANGED <<service, weeks, kpis_to_analyze, artefacts, othersR>>

\* line 2828, lines 2489-2508: the service answers
CoverageCommentaryAnswered ==
    /\ pcR = "coverage"
    /\ weeks >= 2
    /\ service["coverage"] = "ok"
    /\ report_texts' = [report_texts EXCEPT !["coverage"] = "analysis"]
    /\ pcR' = "coverage_chart"
    /\ UNCHANGED <<service, weeks, kpis_to_analyze, artefacts, othersR>>

\* line 2828, lines 2489-2508: client.messages.create raises; the call is
\* in no try block and neither is line 2828, so the script ends here
CoverageCommentaryRaises ==
    /\ pcR = "coverage"
    /\ weeks >= 2
    /\ service["coverage"] # "ok"
    /\ pcR' = "raised"
    /\ UNCHANGED <<service, weeks, kpis_to_analyze, report_texts, artefacts,
                   othersR>>

\* line 2830: coverage_plot_path = create_coverage_visualization(...)
CreateCoverageChart ==
    /\ pcR = "coverage_chart"
    /\ artefacts' = artefacts \cup {"coverage_chart"}
    /\ pcR' = "publish"
    /\ UNCHANGED <<service, weeks, kpis_to_analyze, report_texts, othersR>>

\* lines 3832-3932: the document is created and the chat report is sent
PublishReport ==
    /\ pcR = "publish"
    /\ artefacts' = artefacts \cup {"document", "chat"}
    /\ pcR' = "done"
    /\ UNCHANGED <<service, weeks, kpis_to_analyze, report_texts, othersR>>

NextR ==
    \/ BuildNewsSummary
    \/ AnalyzeKpiWithClaude
    \/ CreateKpiAndProductCharts
    \/ AnalyzeTopProductsWithClaude
    \/ CoverageCommentaryInsufficient
    \/ CoverageCommentaryAnswered
    \/ CoverageCommentaryRaises
    \/ CreateCoverageChart
    \/ PublishReport

-----------------------------------------------------------------------------
(* analyze_kpis_with_claude, lines 1046-1211, as a function of its          *)
(* arguments: which KPIs kpi_data holds, value_to_analyze, and for each KPI *)
(* whether client.messages.create answers or raises.                        *)

\* the keys analyze_weekly_kpis can put in kpi_data['kpis']: line 988
KpiKeys == {all_kpis[i] : i \in 1..Len(all_kpis)}

\* value_to_analyze: left out, the empty string, a KPI name, a name that is
\* no key
ValueArgs == {"None", "", "ecr", "sessions", "users"}

\* line 1067: [value_to_analyze] if value_to_analyze else all_kpis
KpisToAnalyze(value) ==
    IF value \in {"None", ""} THEN all_kpis ELSE <<value>>

\* a dictionary with one more key
Put(dict, key, value) ==
    [k \in DOMAIN dict \cup {key} |-> IF k = key THEN value ELSE dict[k]]

RestAfterStopOnError(rest, outcome) ==
    IF outcome = "ok" THEN Tail(rest) ELSE <<>>

\* lines 1207-1209: the except branch stores the placeholder and the for
\* loop goes on with the next KPI
RestAfter(rest, outcome) == Tail(rest)

\* lines 1059-1107: the loop is entered with an empty dictionary
EnterKpiLoop ==
    /\ pcA = "call"
    /\ loop_rest' = KpisToAnalyze(value_to_analyze)
    /\ analyses' = <<>>
    /\ pcA' = "loop"
    /\ UNCHANGED <<value_to_analyze, kpis_data, call_outcome, requested,
                   othersA>>

\* lines 1110-1112: the KPI is no key of the data, continue
SkipMissingKpi ==
    /\ pcA = "loop"
    /\ loop_rest # <<>>
    /\ Head(loop_rest) \notin kpis_data
    /\ loop_rest' = Tail(loop_rest)
    /\ UNCHANGED <<pcA, value_to_analyze, kpis_data, call_outcome, analyses,
                   requested, othersA>>

\* lines 1114-1209: the prompt is built, the commentary is requested and
\* the answer or the placeholder is stored
RequestKpiCommentary ==
    /\ pcA = "loop"
    /\ loop_rest # <<>>
    /\ Head(loop_rest) \in kpis_data
    /\ LET kpi_name == Head(loop_rest)
           outcome == call_outcome[kpi_name]
       IN /\ requested' = Append(requested, kpi_name)
          /\ analyses' = Put(analyses, kpi_name,
                             CommentaryText(kpi_name, outcome))
          /\ loop_rest' = RestAfter(loop_rest, outcome)
    /\ UNCHANGED <<pcA, value_to_analyze, kpis_data, call_outcome, othersA>>

\* line 1211: return analyses
ReturnAnalyses ==
    /\ pcA = "loop"
    /\ loop_rest = <<>>
    /\ pcA' = "returned"
    /\ UNCHANGED <<value_to_analyze, kpis_data, call_outcome, loop_rest,
                   analyses, requested, othersA>>

NextA ==
    \/ EnterKpiLoop
    \/ SkipMissingKpi
    \/ RequestKpiCommentary
    \/ ReturnAnalyses

-----------------------------------------------------------------------------
(* Configuration, lines 49-69, and the order in which the script reaches    *)
(* its external data feeds, lines 2782-2828.                                *)

\* the names read with os.getenv at lines 50-62 that the steps below use
Credentials ==
    {"BQ_PATH_KEY", "ANTHROPIC_API_KEY", "SLACK_TOKEN", "SLACK_CHANNEL_ID",
     "FOLDER_ID"}

\* lines 49-69: os.getenv gives None for an absent name and nothing tests
\* it; only os.environ[...] = BQ_PATH_KEY at line 66 raises (TypeError)
\* when its value is None
LoadConfiguration ==
    /\ pcG = "configure"
    /\ pcG' = IF env["BQ_PATH_KEY"] = "absent" THEN "raised" ELSE "news"
    /\ UNCHANGED <<env, feeds_called, othersG>>

\* line 2799: fetch_news_from_tavily calls get_holidays (line 271) and
\* perform_search (line 293)
FetchNewsFromTavily ==
    /\ pcG = "news"
    /\ feeds_called' = feeds_called \cup {"holidays", "news"}
    /\ pcG' = "summary"
    /\ UNCHANGED <<env, othersG>>

\* line 2802, lines 352-356: build_news_summary raises ValueError when
\* ANTHROPIC_API_KEY is absent or empty
CheckCommentaryKey ==
    /\ pcG = "summary"
    /\ pcG' = IF env["ANTHROPIC_API_KEY"] = "absent" THEN "raised"
              ELSE "magento"
    /\ UNCHANGED <<env, feeds_called, othersG>>

\* lines 2805, 2808, 2820, 2825: the four queries, one after the other
FetchDataFeed ==
    /\ pcG \in {"magento", "ga4", "products", "reconciliation"}
    /\ feeds_called' = feeds_called \cup {pcG}
    /\ pcG' = CASE pcG = "magento" -> "ga4"
                [] pcG = "ga4" -> "products"
                [] pcG = "products" -> "reconciliation"
                [] OTHER -> "publish"
    /\ UNCHANGED <<env, othersG>>

\* lines 3832-3932: SLACK_TOKEN, SLACK_CHANNEL_ID and FOLDER_ID are first
\* used here, inside try blocks that turn a failure into None or False
PublishWithCredentials ==
    /\ pcG = "publish"
    /\ pcG' = "done"
    /\ UNCHANGED <<env, feeds_called, othersG>>

NextG ==
    \/ LoadConfiguration
    \/ FetchNewsFromTavily
    \/ CheckCommentaryKey
    \/ FetchDataFeed
    \/ PublishWithCredentials

-----------------------------------------------------------------------------
(* The auxiliary feeds: perform_search (lines 124-140), get_holidays (lines *)
(* 142-228) and fetch_news_from_tavily (lines 230-303).                     *)

\* how a request of requests.get or client.search can end
FeedOutcomes == {"ok", "non200", "timeout", "connection", "exception"}

\* the outcomes that are exceptions
FeedExceptions == {"timeout", "connection", "exception"}

\* lines 262-268: the keys of queries, in order
QueryCategories ==
    <<"qwertee_specific", "ecommerce_trends", "tshirt_industry", "weather",
      "marketing_trends">>

get_holidays_keeping_first_year(years, feed, found) ==
    IF feed[1] # "ok" THEN <<>>
    ELSE IF years = 2 /\ feed[2] = "ok" THEN found[1] \o found[2]
    ELSE found[1]

\* lines 166-228: an exception of either request, caught at 219-227, gives
\* []; a status other than 200 of the first request gives [] (215-217); a
\* status other than 200 of the second request only skips its holidays
\* (196-206), and the list of the first year is returned
get_holidays(years, feed, found) ==
    IF feed[1] \in FeedExceptions \/ feed[1] = "non200" THEN <<>>
    ELSE IF years = 1 THEN found[1]
    ELSE IF feed[2] \in FeedExceptions THEN <<>>
    ELSE IF feed[2] = "ok" THEN found[1] \o found[2]
    ELSE found[1]

\* lines 126-140: the response of client.search, or {"results": []} on any
\* exception
perform_search(outcome) ==
    IF outcome = "ok" THEN [results |-> <<"item">>]
    ELSE [results |-> <<>>]

\* line 271: holidays = get_holidays(country_code, start_date, end_date)
GetHolidays ==
    /\ pcN = "holidays"
    /\ holidays' = get_holidays(window_years, holiday_feed, year_holidays)
    /\ all_results' = <<>>
    /\ pcN' = "search"
    /\ UNCHANGED <<window_years, holiday_feed, year_holidays, search_feed,
                   combined_results, othersN>>

\* lines 282-290: one turn of the loop over queries
PerformSearch ==
    /\ pcN = "search"
    /\ Len(all_results) < Len(QueryCategories)
    /\ LET i == Len(all_results) + 1
           response == perform_search(search_feed[i])
       IN all_results' = Append(all_results, response.results)
    /\ UNCHANGED <<pcN, window_years, holiday_feed, year_holidays,
                   search_feed, holidays, combined_results, othersN>>

\* lines 292-302: combined_results is built and returned
ReturnCombinedResults ==
    /\ pcN = "search"
    /\ Len(all_results) = Len(QueryCategories)
    /\ combined_results' = [holidays |-> holidays, results |-> all_results]
    /\ pcN' = "returned"
    /\ UNCHANGED <<window_years, holiday_feed, year_holidays, search_feed,
                   holidays, all_results, othersN>>

NextN ==
    \/ GetHolidays
    \/ PerformSearch
    \/ ReturnCombinedResults

-----------------------------------------------------------------------------
(* create_weekly_google_doc_report, lines 3056-3829: the uploads of the     *)
(* charts and the sections that embed them.                                 *)

\* lines 3364-3371: kpi_order, then the product and the coverage section
SectionOrder ==
    <<"total_revenue_eur", "transaction_count", "sessions", "ecr", "aov_eur",
      "units_per_order", "products", "coverage">>

\* lines 3120-3190: the keys of kpi_plot_paths in the order they were
\* plotted, then the product chart, then the coverage chart
UploadOrder == all_kpis \o <<"products", "coverage">>

DocCharts == {SectionOrder[i] : i \in 1..Len(SectionOrder)}

\* os.path.exists is false (3121, 3145, 3168); files().create or
\* permissions().create raises (3125-3136); both succeed
ChartFates == {"missing", "upload_fails", "uploaded"}

IdsAfterUploadAlways(ids, chart, fate) ==
    IF fate # "missing" THEN ids \cup {chart} ELSE ids

\* lines 3121-3141: image_ids[kpi_name] = file['id'] is reached only when
\* the file exists and neither request of the upload raised
IdsAfterUpload(ids, chart, fate) ==
    IF fate = "uploaded" THEN ids \cup {chart} ELSE ids

\* lines 3119-3190: one chart of the upload step
UploadImage ==
    /\ pcD = "upload"
    /\ upload_next <= Len(UploadOrder)
    /\ LET chart == UploadOrder[upload_next]
       IN /\ image_ids' = IdsAfterUpload(image_ids, chart, chart_fate[chart])
          /\ doc_log' = IF chart_fate[chart] = "uploaded"
                        THEN Append(doc_log, <<"upload", chart>>)
                        ELSE doc_log
    /\ upload_next' = upload_next + 1
    /\ UNCHANGED <<pcD, chart_fate, section_next, othersD>>

\* lines 3192-3362: title, data sources and news sections
WriteFrontSections ==
    /\ pcD = "upload"
    /\ upload_next > Len(UploadOrder)
    /\ pcD' = "sections"
    /\ UNCHANGED <<chart_fate, upload_next, section_next, image_ids, doc_log,
                   othersD>>

\* lines 3384-3535, 3538-3690, 3692-3820: heading, the image if the chart
\* has an id (a failed insertion leaves a note instead), then the text
WriteSection ==
    /\ pcD = "sections"
    /\ section_next <= Len(SectionOrder)
    /\ LET section == SectionOrder[section_next]
           heading == Append(doc_log, <<"heading", section>>)
       IN \E inserted \in BOOLEAN :
              LET image == IF section \notin image_ids THEN heading
                           ELSE IF inserted
                           THEN Append(heading, <<"insert", section>>)
                           ELSE heading \o <<<<"insert", section>>,
                                            <<"note", section>>>>
              IN doc_log' = Append(image, <<"text", section>>)
    /\ section_next' = section_next + 1
    /\ pcD' = IF section_next = Len(SectionOrder) THEN "returned"
              ELSE "sections"
    /\ UNCHANGED <<chart_fate, upload_next, image_ids, othersD>>

\* lines 3825-3829: a request to the document raises outside the inner try
\* blocks; the function prints the error and returns None
DocumentRequestFails ==
    /\ pcD = "sections"
    /\ pcD' = "failed"
    /\ UNCHANGED <<chart_fate, upload_next, section_next, image_ids, doc_log,
                   othersD>>

NextD ==
    \/ UploadImage
    \/ WriteFrontSections
    \/ WriteSection
    \/ DocumentRequestFails

-----------------------------------------------------------------------------
(* The window resolutions of one run started without a reference date,      *)
(* lines 2782-2830: each component calls get_analysis_periods itself, and   *)
(* each call reads the wall clock (line 90).                                *)

\* the components in the order the script reaches them: line 2782 (report
\* header), 767, 1618-1621, 2189, 2246, 2363, 2533
WindowComponents ==
    <<"header", "analyze_weekly_kpis", "analyze_top_products",
      "clean_coverage_data", "calculate_weekly_coverage",
      "analyze_weekly_coverage_with_claude", "create_coverage_visualization">>

\* by how many days the wall clock may advance during one run
MaxTicks == 1

\* run_date=None, as every call of the script passes it
NoRunDate == [kind |-> "none", ord |-> 0, hour |-> 0]

\* the next component resolves its windows from the clock as it stands
ResolveWindows ==
    /\ component_next <= Len(WindowComponents)
    /\ windows' = [windows EXCEPT
                      ![component_next] = get_analysis_periods(NoRunDate, now)]
    /\ component_next' = component_next + 1
    /\ UNCHANGED <<run_date, now, ticks, othersW>>

\* midnight passes between two steps of the run
ClockAdvances ==
    /\ component_next <= Len(WindowComponents)
    /\ ticks < MaxTicks
    /\ now' = now + 1
    /\ ticks' = ticks + 1
    /\ UNCHANGED <<run_date, component_next, windows, othersW>>

NextW ==
    \/ ResolveWindows
    \/ ClockAdvances

-----------------------------------------------------------------------------
(* execute_with_rate_limiting, lines 2882-2918.                             *)

\* the largest max_retries tried (the default of the function is 5)
MaxRetriesArg == 5

\* the values of initial_delay tried
InitialDelays == {1, 2}

\* how one invocation of request_fn can end: it returns, it raises an error
\* whose resp.status is 429, it raises an error whose text holds "Quota
\* exceeded" or "RATE_LIMIT_EXCEEDED", it raises any other error
RequestOutcomes == {"ok", "status_429", "quota_text", "other_error"}

IsAnyError(outcome) == outcome # "ok"

\* lines 2901-2912: the two tests of the except branch
IsRateLimitError(outcome) == outcome \in {"status_429", "quota_text"}

\* lines 2899-2915: one turn of the while loop
InvokeRequest ==
    /\ pcL = "loop"
    /\ retries < max_retries
    /\ \E outcome \in RequestOutcomes :
           /\ request_log' = Append(request_log, outcome)
           /\ IF outcome = "ok"
              THEN /\ pcL' = "returned"
                   /\ UNCHANGED <<delay, retries, slept, raised_error>>
              ELSE IF IsRateLimitError(outcome)
              THEN /\ slept' = slept + delay
                   /\ delay' = delay * 2
                   /\ retries' = retries + 1
                   /\ UNCHANGED <<pcL, raised_error>>
              ELSE /\ pcL' = "raised"
                   /\ raised_error' = "request_error"
                   /\ UNCHANGED <<delay, retries, slept>>
    /\ UNCHANGED <<max_retries, othersL>>

\* lines 2917-2918: the loop is left, raise Exception("Failed after ...")
RaiseFailure ==
    /\ pcL = "loop"
    /\ retries >= max_retries
    /\ pcL' = "raised"
    /\ raised_error' = "failure_exception"
    /\ UNCHANGED <<max_retries, delay, retries, slept, request_log, othersL>>

NextL ==
    \/ InvokeRequest
    \/ RaiseFailure

-----------------------------------------------------------------------------
(* Specifications: one per component; the other components stay idle.       *)

\* the initial states of a call of get_analysis_periods
InitPeriods ==
    /\ pcP = "call"
    /\ run_date \in RunDateArgs
    /\ now \in NowDays
    /\ periods = NoPeriods
    /\ pcX = "idle"
    /\ df = {}
    /\ yf = <<>>
    /\ todo = {}
    /\ rates_by_currency_date = <<>>
    /\ df_copy = {}
    /\ df_grouped = <<>>
    /\ pcM = "idle"
    /\ df_magento_eur = NoFrame
    /\ df_ga4 = NoFrame
    /\ merged_df = <<>>
    /\ pcK = "idle"
    /\ df_merged = {}
    /\ kpi_data = <<>>
    /\ pcC = "idle"
    /\ df_coverage = NoFrame
    /\ df_coverage_clean = {}
    /\ df_weekly = <<>>
    /\ claude = "ok"
    /\ coverage_analysis = "none"
    /\ scorecard = NoScorecard("none")
    /\ pcT = "idle"
    /\ df_product = {}
    /\ top_n = [kind |-> "int", val |-> 5]
    /\ product_data = <<>>
    /\ total_revenue_change = [inf |-> FALSE, val |-> 0]
    /\ pcS = "idle"
    /\ doc_id = "unset"
    /\ next_send = 1
    /\ posted = 0
    /\ ret = "none"
    /\ cause = "none"
    /\ attempts = 0
    /\ pcR = "idle"
    /\ service = [s \in CommentarySections |-> "ok"]
    /\ weeks = 0
    /\ kpis_to_analyze = <<>>
    /\ report_texts = [s \in CommentarySections |-> "none"]
    /\ artefacts = {}
    /\ pcA = "idle"
    /\ value_to_analyze = "None"
    /\ kpis_data = {}
    /\ call_outcome = [k \in KpiKeys |-> "ok"]
    /\ loop_rest = <<>>
    /\ analyses = <<>>
    /\ requested = <<>>
    /\ pcG = "idle"
    /\ env = [c \in Credentials |-> "set"]
    /\ feeds_called = {}
    /\ pcN = "idle"
    /\ window_years = 1
    /\ holiday_feed = [i \in 1..2 |-> "ok"]
    /\ year_holidays = [i \in 1..2 |-> <<>>]
    /\ search_feed = [c \in 1..Len(QueryCategories) |-> "ok"]
    /\ holidays = <<>>
    /\ all_results = <<>>
    /\ combined_results = <<>>
    /\ pcD = "idle"
    /\ chart_fate = [c \in DocCharts |-> "uploaded"]
    /\ upload_next = 1
    /\ section_next = 1
    /\ image_ids = {}
    /\ doc_log = <<>>
    /\ component_next = 1
    /\ windows = [c \in 1..Len(WindowComponents) |-> NoPeriods]
    /\ ticks = 0
    /\ pcL = "idle"
    /\ max_retries = 5
    /\ delay = 1
    /\ retries = 0
    /\ slept = 0
    /\ request_log = <<>>
    /\ raised_error = "none"

SpecPeriods == InitPeriods /\ [][NextP]_vars

\* the initial states of a call of convert_currencies_and_group_vectorized
InitConvert ==
    /\ pcX = "fetch"
    /\ df \in Frames
    /\ yf \in [NonReporting(df) -> Outcomes]
    /\ todo = NonReporting(df)
    /\ rates_by_currency_date = <<>>
    /\ df_copy = {}
    /\ df_grouped = <<>>
    /\ run_date = [kind |-> "none", ord |-> 0, hour |-> 0]
    /\ now = FirstRefDay
    /\ pcP = "idle"
    /\ periods = NoPeriods
    /\ pcM = "idle"
    /\ df_magento_eur = NoFrame
    /\ df_ga4 = NoFrame
    /\ merged_df = <<>>
    /\ pcK = "idle"
    /\ df_merged = {}
    /\ kpi_data = <<>>
    /\ pcC = "idle"
    /\ df_coverage = NoFrame
    /\ df_coverage_clean = {}
    /\ df_weekly = <<>>
    /\ claude = "ok"
    /\ coverage_analysis = "none"
    /\ scorecard = NoScorecard("none")
    /\ pcT = "idle"
    /\ df_product = {}
    /\ top_n = [kind |-> "int", val |-> 5]
    /\ product_data = <<>>
    /\ total_revenue_change = [inf |-> FALSE, val |-> 0]
    /\ pcS = "idle"
    /\ doc_id = "unset"
    /\ next_send = 1
    /\ posted = 0
    /\ ret = "none"
    /\ cause = "none"
    /\ attempts = 0
    /\ pcR = "idle"
    /\ service = [s \in CommentarySections |-> "ok"]
    /\ weeks = 0
    /\ kpis_to_analyze = <<>>
    /\ report_texts = [s \in CommentarySections |-> "none"]
    /\ artefacts = {}
    /\ pcA = "idle"
    /\ value_to_analyze = "None"
    /\ kpis_data = {}
    /\ call_outcome = [k \in KpiKeys |-> "ok"]
    /\ loop_rest = <<>>
    /\ analyses = <<>>
    /\ requested = <<>>
    /\ pcG = "idle"
    /\ env = [c \in Credentials |-> "set"]
    /\ feeds_called = {}
    /\ pcN = "idle"
    /\ window_years = 1
    /\ holiday_feed = [i \in 1..2 |-> "ok"]
    /\ year_holidays = [i \in 1..2 |-> <<>>]
    /\ search_feed = [c \in 1..Len(QueryCategories) |-> "ok"]
    /\ holidays = <<>>
    /\ all_results = <<>>
    /\ combined_results = <<>>
    /\ pcD = "idle"
    /\ chart_fate = [c \in DocCharts |-> "uploaded"]
    /\ upload_next = 1
    /\ section_next = 1
    /\ image_ids = {}
    /\ doc_log = <<>>
    /\ component_next = 1
    /\ windows = [c \in 1..Len(WindowComponents) |-> NoPeriods]
    /\ ticks = 0
    /\ pcL = "idle"
    /\ max_retries = 5
    /\ delay = 1
    /\ retries = 0
    /\ slept = 0
    /\ request_log = <<>>
    /\ raised_error = "none"

SpecConvert == InitConvert /\ [][NextX]_vars

\* the initial states of a call of merge_data_sources
InitMerge ==
    /\ pcM = "call"
    /\ df_magento_eur \in MagentoFrames
    /\ df_ga4 \in Ga4Frames
    /\ merged_df = <<>>
    /\ run_date = [kind |-> "none", ord |-> 0, hour |-> 0]
    /\ now = FirstRefDay
    /\ pcP = "idle"
    /\ periods = NoPeriods
    /\ pcX = "idle"
    /\ df = {}
    /\ yf = <<>>
    /\ todo = {}
    /\ rates_by_currency_date = <<>>
    /\ df_copy = {}
    /\ df_grouped = <<>>
    /\ pcK = "idle"
    /\ df_merged = {}
    /\ kpi_data = <<>>
    /\ pcC = "idle"
    /\ df_coverage = NoFrame
    /\ df_coverage_clean = {}
    /\ df_weekly = <<>>
    /\ claude = "ok"
    /\ coverage_analysis = "none"
    /\ scorecard = NoScorecard("none")
    /\ pcT = "idle"
    /\ df_product = {}
    /\ top_n = [kind |-> "int", val |-> 5]
    /\ product_data = <<>>
    /\ total_revenue_change = [inf |-> FALSE, val |-> 0]
    /\ pcS = "idle"
    /\ doc_id = "unset"
    /\ next_send = 1
    /\ posted = 0
    /\ ret = "none"
    /\ cause = "none"
    /\ attempts = 0
    /\ pcR = "idle"
    /\ service = [s \in CommentarySections |-> "ok"]
    /\ weeks = 0
    /\ kpis_to_analyze = <<>>
    /\ report_texts = [s \in CommentarySections |-> "none"]
    /\ artefacts = {}
    /\ pcA = "idle"
    /\ value_to_analyze = "None"
    /\ kpis_data = {}
    /\ call_outcome = [k \in KpiKeys |-> "ok"]
    /\ loop_rest = <<>>
    /\ analyses = <<>>
    /\ requested = <<>>
    /\ pcG = "idle"
    /\ env = [c \in Credentials |-> "set"]
    /\ feeds_called = {}
    /\ pcN = "idle"
    /\ window_years = 1
    /\ holiday_feed = [i \in 1..2 |-> "ok"]
    /\ year_holidays = [i \in 1..2 |-> <<>>]
    /\ search_feed = [c \in 1..Len(QueryCategories) |-> "ok"]
    /\ holidays = <<>>
    /\ all_results = <<>>
    /\ combined_results = <<>>
    /\ pcD = "idle"
    /\ chart_fate = [c \in DocCharts |-> "uploaded"]
    /\ upload_next = 1
    /\ section_next = 1
    /\ image_ids = {}
    /\ doc_log = <<>>
    /\ component_next = 1
    /\ windows = [c \in 1..Len(WindowComponents) |-> NoPeriods]
    /\ ticks = 0
    /\ pcL = "idle"
    /\ max_retries = 5
    /\ delay = 1
    /\ retries = 0
    /\ slept = 0
    /\ request_log = <<>>
    /\ raised_error = "none"

SpecMerge == InitMerge /\ [][NextM]_vars

\* the initial states of a call of analyze_weekly_kpis
InitKpi ==
    /\ pcK = "call"
    /\ run_date \in KpiRunDates
    /\ now \in KpiNowDays
    /\ df_merged \in MergedTables(IF run_date.kind = "none" THEN now ELSE run_date.ord)
    /\ kpi_data = <<>>
    /\ pcP = "idle"
    /\ periods = NoPeriods
    /\ pcX = "idle"
    /\ df = {}
    /\ yf = <<>>
    /\ todo = {}
    /\ rates_by_currency_date = <<>>
    /\ df_copy = {}
    /\ df_grouped = <<>>
    /\ pcM = "idle"
    /\ df_magento_eur = NoFrame
    /\ df_ga4 = NoFrame
    /\ merged_df = <<>>
    /\ pcC = "idle"
    /\ df_coverage = NoFrame
    /\ df_coverage_clean = {}
    /\ df_weekly = <<>>
    /\ claude = "ok"
    /\ coverage_analysis = "none"
    /\ scorecard = NoScorecard("none")
    /\ pcT = "idle"
    /\ df_product = {}
    /\ top_n = [kind |-> "int", val |-> 5]
    /\ product_data = <<>>
    /\ total_revenue_change = [inf |-> FALSE, val |-> 0]
    /\ pcS = "idle"
    /\ doc_id = "unset"
    /\ next_send = 1
    /\ posted = 0
    /\ ret = "none"
    /\ cause = "none"
    /\ attempts = 0
    /\ pcR = "idle"
    /\ service = [s \in CommentarySections |-> "ok"]
    /\ weeks = 0
    /\ kpis_to_analyze = <<>>
    /\ report_texts = [s \in CommentarySections |-> "none"]
    /\ artefacts = {}
    /\ pcA = "idle"
    /\ value_to_analyze = "None"
    /\ kpis_data = {}
    /\ call_outcome = [k \in KpiKeys |-> "ok"]
    /\ loop_rest = <<>>
    /\ analyses = <<>>
    /\ requested = <<>>
    /\ pcG = "idle"
    /\ env = [c \in Credentials |-> "set"]
    /\ feeds_called = {}
    /\ pcN = "idle"
    /\ window_years = 1
    /\ holiday_feed = [i \in 1..2 |-> "ok"]
    /\ year_holidays = [i \in 1..2 |-> <<>>]
    /\ search_feed = [c \in 1..Len(QueryCategories) |-> "ok"]
    /\ holidays = <<>>
    /\ all_results = <<>>
    /\ combined_results = <<>>
    /\ pcD = "idle"
    /\ chart_fate = [c \in DocCharts |-> "uploaded"]
    /\ upload_next = 1
    /\ section_next = 1
    /\ image_ids = {}
    /\ doc_log = <<>>
    /\ component_next = 1
    /\ windows = [c \in 1..Len(WindowComponents) |-> NoPeriods]
    /\ ticks = 0
    /\ pcL = "idle"
    /\ max_retries = 5
    /\ delay = 1
    /\ retries = 0
    /\ slept = 0
    /\ request_log = <<>>
    /\ raised_error = "none"

SpecKpi == InitKpi /\ [][NextK]_vars

\* the initial states of the coverage steps of the run
InitCoverage ==
    /\ pcC = "clean"
    /\ run_date \in CovRunDates
    /\ now \in CovNowDays
    /\ df_coverage \in CoverageFeeds(IF run_date.kind = "none" THEN now ELSE run_date.ord)
    /\ df_coverage_clean = {}
    /\ df_weekly = <<>>
    /\ claude \in {"ok", "error"}
    /\ coverage_analysis = "none"
    /\ scorecard = NoScorecard("none")
    /\ pcP = "idle"
    /\ periods = NoPeriods
    /\ pcX = "idle"
    /\ df = {}
    /\ yf = <<>>
    /\ todo = {}
    /\ rates_by_currency_date = <<>>
    /\ df_copy = {}
    /\ df_grouped = <<>>
    /\ pcM = "idle"
    /\ df_magento_eur = NoFrame
    /\ df_ga4 = NoFrame
    /\ merged_df = <<>>
    /\ pcK = "idle"
    /\ df_merged = {}
    /\ kpi_data = <<>>
    /\ pcT = "idle"
    /\ df_product = {}
    /\ top_n = [kind |-> "int", val |-> 5]
    /\ product_data = <<>>
    /\ total_revenue_change = [inf |-> FALSE, val |-> 0]
    /\ pcS = "idle"
    /\ doc_id = "unset"
    /\ next_send = 1
    /\ posted = 0
    /\ ret = "none"
    /\ cause = "none"
    /\ attempts = 0
    /\ pcR = "idle"
    /\ service = [s \in CommentarySections |-> "ok"]
    /\ weeks = 0
    /\ kpis_to_analyze = <<>>
    /\ report_texts = [s \in CommentarySections |-> "none"]
    /\ artefacts = {}
    /\ pcA = "idle"
    /\ value_to_analyze = "None"
    /\ kpis_data = {}
    /\ call_outcome = [k \in KpiKeys |-> "ok"]
    /\ loop_rest = <<>>
    /\ analyses = <<>>
    /\ requested = <<>>
    /\ pcG = "idle"
    /\ env = [c \in Credentials |-> "set"]
    /\ feeds_called = {}
    /\ pcN = "idle"
    /\ window_years = 1
    /\ holiday_feed = [i \in 1..2 |-> "ok"]
    /\ year_holidays = [i \in 1..2 |-> <<>>]
    /\ search_feed = [c \in 1..Len(QueryCategories) |-> "ok"]
    /\ holidays = <<>>
    /\ all_results = <<>>
    /\ combined_results = <<>>
    /\ pcD = "idle"
    /\ chart_fate = [c \in DocCharts |-> "uploaded"]
    /\ upload_next = 1
    /\ section_next = 1
    /\ image_ids = {}
    /\ doc_log = <<>>
    /\ component_next = 1
    /\ windows = [c \in 1..Len(WindowComponents) |-> NoPeriods]
    /\ ticks = 0
    /\ pcL = "idle"
    /\ max_retries = 5
    /\ delay = 1
    /\ retries = 0
    /\ slept = 0
    /\ request_log = <<>>
    /\ raised_error = "none"

SpecCoverage == InitCoverage /\ [][NextC]_vars

\* the initial states of a call of analyze_top_products
InitProducts ==
    /\ pcT = "call"
    /\ run_date \in ProductRunDates
    /\ now \in KpiNowDays
    /\ df_product \in ProductFrames
    /\ top_n \in TopNArgs
    /\ product_data = <<>>
    /\ total_revenue_change = [inf |-> FALSE, val |-> 0]
    /\ pcP = "idle"
    /\ periods = NoPeriods
    /\ pcX = "idle"
    /\ df = {}
    /\ yf = <<>>
    /\ todo = {}
    /\ rates_by_currency_date = <<>>
    /\ df_copy = {}
    /\ df_grouped = <<>>
    /\ pcM = "idle"
    /\ df_magento_eur = NoFrame
    /\ df_ga4 = NoFrame
    /\ merged_df = <<>>
    /\ pcK = "idle"
    /\ df_merged = {}
    /\ kpi_data = <<>>
    /\ pcC = "idle"
    /\ df_coverage = NoFrame
    /\ df_coverage_clean = {}
    /\ df_weekly = <<>>
    /\ claude = "ok"
    /\ coverage_analysis = "none"
    /\ scorecard = NoScorecard("none")
    /\ pcS = "idle"
    /\ doc_id = "unset"
    /\ next_send = 1
    /\ posted = 0
    /\ ret = "none"
    /\ cause = "none"
    /\ attempts = 0
    /\ pcR = "idle"
    /\ service = [s \in CommentarySections |-> "ok"]
    /\ weeks = 0
    /\ kpis_to_analyze = <<>>
    /\ report_texts = [s \in CommentarySections |-> "none"]
    /\ artefacts = {}
    /\ pcA = "idle"
    /\ value_to_analyze = "None"
    /\ kpis_data = {}
    /\ call_outcome = [k \in KpiKeys |-> "ok"]
    /\ loop_rest = <<>>
    /\ analyses = <<>>
    /\ requested = <<>>
    /\ pcG = "idle"
    /\ env = [c \in Credentials |-> "set"]
    /\ feeds_called = {}
    /\ pcN = "idle"
    /\ window_years = 1
    /\ holiday_feed = [i \in 1..2 |-> "ok"]
    /\ year_holidays = [i \in 1..2 |-> <<>>]
    /\ search_feed = [c \in 1..Len(QueryCategories) |-> "ok"]
    /\ holidays = <<>>
    /\ all_results = <<>>
    /\ combined_results = <<>>
    /\ pcD = "idle"
    /\ chart_fate = [c \in DocCharts |-> "uploaded"]
    /\ upload_next = 1
    /\ section_next = 1
    /\ image_ids = {}
    /\ doc_log = <<>>
    /\ component_next = 1
    /\ windows = [c \in 1..Len(WindowComponents) |-> NoPeriods]
    /\ ticks = 0
    /\ pcL = "idle"
    /\ max_retries = 5
    /\ delay = 1
    /\ retries = 0
    /\ slept = 0
    /\ request_log = <<>>
    /\ raised_error = "none"

SpecProducts == InitProducts /\ [][NextT]_vars

\* the initial states of the publishing steps of the run
InitPublish ==
    /\ pcS = "document"
    /\ doc_id = "unset"
    /\ next_send = 1
    /\ posted = 0
    /\ ret = "none"
    /\ cause = "none"
    /\ attempts = 0
    /\ run_date = [kind |-> "none", ord |-> 0, hour |-> 0]
    /\ now = FirstRefDay
    /\ pcP = "idle"
    /\ periods = NoPeriods
    /\ pcX = "idle"
    /\ df = {}
    /\ yf = <<>>
    /\ todo = {}
    /\ rates_by_currency_date = <<>>
    /\ df_copy = {}
    /\ df_grouped = <<>>
    /\ pcM = "idle"
    /\ df_magento_eur = NoFrame
    /\ df_ga4 = NoFrame
    /\ merged_df = <<>>
    /\ pcK = "idle"
    /\ df_merged = {}
    /\ kpi_data = <<>>
    /\ pcC = "idle"
    /\ df_coverage = NoFrame
    /\ df_coverage_clean = {}
    /\ df_weekly = <<>>
    /\ claude = "ok"
    /\ coverage_analysis = "none"
    /\ scorecard = NoScorecard("none")
    /\ pcT = "idle"
    /\ df_product = {}
    /\ top_n = [kind |-> "int", val |-> 5]
    /\ product_data = <<>>
    /\ total_revenue_change = [inf |-> FALSE, val |-> 0]
    /\ pcR = "idle"
    /\ service = [s \in CommentarySections |-> "ok"]
    /\ weeks = 0
    /\ kpis_to_analyze = <<>>
    /\ report_texts = [s \in CommentarySections |-> "none"]
    /\ artefacts = {}
    /\ pcA = "idle"
    /\ value_to_analyze = "None"
    /\ kpis_data = {}
    /\ call_outcome = [k \in KpiKeys |-> "ok"]
    /\ loop_rest = <<>>
    /\ analyses = <<>>
    /\ requested = <<>>
    /\ pcG = "idle"
    /\ env = [c \in Credentials |-> "set"]
    /\ feeds_called = {}
    /\ pcN = "idle"
    /\ window_years = 1
    /\ holiday_feed = [i \in 1..2 |-> "ok"]
    /\ year_holidays = [i \in 1..2 |-> <<>>]
    /\ search_feed = [c \in 1..Len(QueryCategories) |-> "ok"]
    /\ holidays = <<>>
    /\ all_results = <<>>
    /\ combined_results = <<>>
    /\ pcD = "idle"
    /\ chart_fate = [c \in DocCharts |-> "uploaded"]
    /\ upload_next = 1
    /\ section_next = 1
    /\ image_ids = {}
    /\ doc_log = <<>>
    /\ component_next = 1
    /\ windows = [c \in 1..Len(WindowComponents) |-> NoPeriods]
    /\ ticks = 0
    /\ pcL = "idle"
    /\ max_retries = 5
    /\ delay = 1
    /\ retries = 0
    /\ slept = 0
    /\ request_log = <<>>
    /\ raised_error = "none"

SpecPublish == InitPublish /\ [][NextS]_vars

\* the initial states of the commentary steps of the run
InitRun ==
    /\ pcR = "news"
    /\ service \in [CommentarySections -> {"ok", "error"}]
    /\ weeks \in 0..2
    /\ kpis_to_analyze = <<>>
    /\ report_texts = [s \in CommentarySections |-> "none"]
    /\ artefacts = {}
    /\ run_date = [kind |-> "none", ord |-> 0, hour |-> 0]
    /\ now = FirstRefDay
    /\ pcP = "idle"
    /\ periods = NoPeriods
    /\ pcX = "idle"
    /\ df = {}
    /\ yf = <<>>
    /\ todo = {}
    /\ rates_by_currency_date = <<>>
    /\ df_copy = {}
    /\ df_grouped = <<>>
    /\ pcM = "idle"
    /\ df_magento_eur = NoFrame
    /\ df_ga4 = NoFrame
    /\ merged_df = <<>>
    /\ pcK = "idle"
    /\ df_merged = {}
    /\ kpi_data = <<>>
    /\ pcC = "idle"
    /\ df_coverage = NoFrame
    /\ df_coverage_clean = {}
    /\ df_weekly = <<>>
    /\ claude = "ok"
    /\ coverage_analysis = "none"
    /\ scorecard = NoScorecard("none")
    /\ pcT = "idle"
    /\ df_product = {}
    /\ top_n = [kind |-> "int", val |-> 5]
    /\ product_data = <<>>
    /\ total_revenue_change = [inf |-> FALSE, val |-> 0]
    /\ pcS = "idle"
    /\ doc_id = "unset"
    /\ next_send = 1
    /\ posted = 0
    /\ ret = "none"
    /\ cause = "none"
    /\ attempts = 0
    /\ pcA = "idle"
    /\ value_to_analyze = "None"
    /\ kpis_data = {}
    /\ call_outcome = [k \in KpiKeys |-> "ok"]
    /\ loop_rest = <<>>
    /\ analyses = <<>>
    /\ requested = <<>>
    /\ pcG = "idle"
    /\ env = [c \in Credentials |-> "set"]
    /\ feeds_called = {}
    /\ pcN = "idle"
    /\ window_years = 1
    /\ holiday_feed = [i \in 1..2 |-> "ok"]
    /\ year_holidays = [i \in 1..2 |-> <<>>]
    /\ search_feed = [c \in 1..Len(QueryCategories) |-> "ok"]
    /\ holidays = <<>>
    /\ all_results = <<>>
    /\ combined_results = <<>>
    /\ pcD = "idle"
    /\ chart_fate = [c \in DocCharts |-> "uploaded"]
    /\ upload_next = 1
    /\ section_next = 1
    /\ image_ids = {}
    /\ doc_log = <<>>
    /\ component_next = 1
    /\ windows = [c \in 1..Len(WindowComponents) |-> NoPeriods]
    /\ ticks = 0
    /\ pcL = "idle"
    /\ max_retries = 5
    /\ delay = 1
    /\ retries = 0
    /\ slept = 0
    /\ request_log = <<>>
    /\ raised_error = "none"

SpecRun == InitRun /\ [][NextR]_vars

\* the initial states of a call of analyze_kpis_with_claude
InitKpiCommentary ==
    /\ pcA = "call"
    /\ value_to_analyze \in ValueArgs
    /\ kpis_data \in SUBSET KpiKeys
    /\ call_outcome \in [KpiKeys -> {"ok", "error"}]
    /\ loop_rest = <<>>
    /\ analyses = <<>>
    /\ requested = <<>>
    /\ run_date = [kind |-> "none", ord |-> 0, hour |-> 0]
    /\ now = FirstRefDay
    /\ pcP = "idle"
    /\ periods = NoPeriods
    /\ pcX = "idle"
    /\ df = {}
    /\ yf = <<>>
    /\ todo = {}
    /\ rates_by_currency_date = <<>>
    /\ df_copy = {}
    /\ df_grouped = <<>>
    /\ pcM = "idle"
    /\ df_magento_eur = NoFrame
    /\ df_ga4 = NoFrame
    /\ merged_df = <<>>
    /\ pcK = "idle"
    /\ df_merged = {}
    /\ kpi_data = <<>>
    /\ pcC = "idle"
    /\ df_coverage = NoFrame
    /\ df_coverage_clean = {}
    /\ df_weekly = <<>>
    /\ claude = "ok"
    /\ coverage_analysis = "none"
    /\ scorecard = NoScorecard("none")
    /\ pcT = "idle"
    /\ df_product = {}
    /\ top_n = [kind |-> "int", val |-> 5]
    /\ product_data = <<>>
    /\ total_revenue_change = [inf |-> FALSE, val |-> 0]
    /\ pcS = "idle"
    /\ doc_id = "unset"
    /\ next_send = 1
    /\ posted = 0
    /\ ret = "none"
    /\ cause = "none"
    /\ attempts = 0
    /\ pcR = "idle"
    /\ service = [s \in CommentarySections |-> "ok"]
    /\ weeks = 0
    /\ kpis_to_analyze = <<>>
    /\ report_texts = [s \in CommentarySections |-> "none"]
    /\ artefacts = {}
    /\ pcG = "idle"
    /\ env = [c \in Credentials |-> "set"]
    /\ feeds_called = {}
    /\ pcN = "idle"
    /\ window_years = 1
    /\ holiday_feed = [i \in 1..2 |-> "ok"]
    /\ year_holidays = [i \in 1..2 |-> <<>>]
    /\ search_feed = [c \in 1..Len(QueryCategories) |-> "ok"]
    /\ holidays = <<>>
    /\ all_results = <<>>
    /\ combined_results = <<>>
    /\ pcD = "idle"
    /\ chart_fate = [c \in DocCharts |-> "uploaded"]
    /\ upload_next = 1
    /\ section_next = 1
    /\ image_ids = {}
    /\ doc_log = <<>>
    /\ component_next = 1
    /\ windows = [c \in 1..Len(WindowComponents) |-> NoPeriods]
    /\ ticks = 0
    /\ pcL = "idle"
    /\ max_retries = 5
    /\ delay = 1
    /\ retries = 0
    /\ slept = 0
    /\ request_log = <<>>
    /\ raised_error = "none"

SpecKpiCommentary == InitKpiCommentary /\ [][NextA]_vars

\* the initial states of a call of the script from its configuration on
InitConfig ==
    /\ pcG = "configure"
    /\ env \in [Credentials -> {"set", "absent"}]
    /\ feeds_called = {}
    /\ run_date = [kind |-> "none", ord |-> 0, hour |-> 0]
    /\ now = FirstRefDay
    /\ pcP = "idle"
    /\ periods = NoPeriods
    /\ pcX = "idle"
    /\ df = {}
    /\ yf = <<>>
    /\ todo = {}
    /\ rates_by_currency_date = <<>>
    /\ df_copy = {}
    /\ df_grouped = <<>>
    /\ pcM = "idle"
    /\ df_magento_eur = NoFrame
    /\ df_ga4 = NoFrame
    /\ merged_df = <<>>
    /\ pcK = "idle"
    /\ df_merged = {}
    /\ kpi_data = <<>>
    /\ pcC = "idle"
    /\ df_coverage = NoFrame
    /\ df_coverage_clean = {}
    /\ df_weekly = <<>>
    /\ claude = "ok"
    /\ coverage_analysis = "none"
    /\ scorecard = NoScorecard("none")
    /\ pcT = "idle"
    /\ df_product = {}
    /\ top_n = [kind |-> "int", val |-> 5]
    /\ product_data = <<>>
    /\ total_revenue_change = [inf |-> FALSE, val |-> 0]
    /\ pcS = "idle"
    /\ doc_id = "unset"
    /\ next_send = 1
    /\ posted = 0
    /\ ret = "none"
    /\ cause = "none"
    /\ attempts = 0
    /\ pcR = "idle"
    /\ service = [s \in CommentarySections |-> "ok"]
    /\ weeks = 0
    /\ kpis_to_analyze = <<>>
    /\ report_texts = [s \in CommentarySections |-> "none"]
    /\ artefacts = {}
    /\ pcA = "idle"
    /\ value_to_analyze = "None"
    /\ kpis_data = {}
    /\ call_outcome = [k \in KpiKeys |-> "ok"]
    /\ loop_rest = <<>>
    /\ analyses = <<>>
    /\ requested = <<>>
    /\ pcN = "idle"
    /\ window_years = 1
    /\ holiday_feed = [i \in 1..2 |-> "ok"]
    /\ year_holidays = [i \in 1..2 |-> <<>>]
    /\ search_feed = [c \in 1..Len(QueryCategories) |-> "ok"]
    /\ holidays = <<>>
    /\ all_results = <<>>
    /\ combined_results = <<>>
    /\ pcD = "idle"
    /\ chart_fate = [c \in DocCharts |-> "uploaded"]
    /\ upload_next = 1
    /\ section_next = 1
    /\ image_ids = {}
    /\ doc_log = <<>>
    /\ component_next = 1
    /\ windows = [c \in 1..Len(WindowComponents) |-> NoPeriods]
    /\ ticks = 0
    /\ pcL = "idle"
    /\ max_retries = 5
    /\ delay = 1
    /\ retries = 0
    /\ slept = 0
    /\ request_log = <<>>
    /\ raised_error = "none"

SpecConfig == InitConfig /\ [][NextG]_vars

\* the initial states of a call of fetch_news_from_tavily
InitNews ==
    /\ pcN = "holidays"
    /\ window_years \in 1..2
    /\ holiday_feed \in [1..2 -> FeedOutcomes]
    /\ year_holidays \in [1..2 -> {<<>>, <<"holiday">>}]
    /\ search_feed \in [1..Len(QueryCategories) -> {"ok", "empty", "error"}]
    /\ holidays = <<>>
    /\ all_results = <<>>
    /\ combined_results = <<>>
    /\ run_date = [kind |-> "none", ord |-> 0, hour |-> 0]
    /\ now = FirstRefDay
    /\ pcP = "idle"
    /\ periods = NoPeriods
    /\ pcX = "idle"
    /\ df = {}
    /\ yf = <<>>
    /\ todo = {}
    /\ rates_by_currency_date = <<>>
    /\ df_copy = {}
    /\ df_grouped = <<>>
    /\ pcM = "idle"
    /\ df_magento_eur = NoFrame
    /\ df_ga4 = NoFrame
    /\ merged_df = <<>>
    /\ pcK = "idle"
    /\ df_merged = {}
    /\ kpi_data = <<>>
    /\ pcC = "idle"
    /\ df_coverage = NoFrame
    /\ df_coverage_clean = {}
    /\ df_weekly = <<>>
    /\ claude = "ok"
    /\ coverage_analysis = "none"
    /\ scorecard = NoScorecard("none")
    /\ pcT = "idle"
    /\ df_product = {}
    /\ top_n = [kind |-> "int", val |-> 5]
    /\ product_data = <<>>
    /\ total_revenue_change = [inf |-> FALSE, val |-> 0]
    /\ pcS = "idle"
    /\ doc_id = "unset"
    /\ next_send = 1
    /\ posted = 0
    /\ ret = "none"
    /\ cause = "none"
    /\ attempts = 0
    /\ pcR = "idle"
    /\ service = [s \in CommentarySections |-> "ok"]
    /\ weeks = 0
    /\ kpis_to_analyze = <<>>
    /\ report_texts = [s \in CommentarySections |-> "none"]
    /\ artefacts = {}
    /\ pcA = "idle"
    /\ value_to_analyze = "None"
    /\ kpis_data = {}
    /\ call_outcome = [k \in KpiKeys |-> "ok"]
    /\ loop_rest = <<>>
    /\ analyses = <<>>
    /\ requested = <<>>
    /\ pcG = "idle"
    /\ env = [c \in Credentials |-> "set"]
    /\ feeds_called = {}
    /\ pcD = "idle"
    /\ chart_fate = [c \in DocCharts |-> "uploaded"]
    /\ upload_next = 1
    /\ section_next = 1
    /\ image_ids = {}
    /\ doc_log = <<>>
    /\ component_next = 1
    /\ windows = [c \in 1..Len(WindowComponents) |-> NoPeriods]
    /\ ticks = 0
    /\ pcL = "idle"
    /\ max_retries = 5
    /\ delay = 1
    /\ retries = 0
    /\ slept = 0
    /\ request_log = <<>>
    /\ raised_error = "none"

SpecNews == InitNews /\ [][NextN]_vars

\* the initial states of a call of create_weekly_google_doc_report
InitDocument ==
    /\ pcD = "upload"
    /\ chart_fate \in [DocCharts -> ChartFates]
    /\ upload_next = 1
    /\ section_next = 1
    /\ image_ids = {}
    /\ doc_log = <<>>
    /\ run_date = [kind |-> "none", ord |-> 0, hour |-> 0]
    /\ now = FirstRefDay
    /\ pcP = "idle"
    /\ periods = NoPeriods
    /\ pcX = "idle"
    /\ df = {}
    /\ yf = <<>>
    /\ todo = {}
    /\ rates_by_currency_date = <<>>
    /\ df_copy = {}
    /\ df_grouped = <<>>
    /\ pcM = "idle"
    /\ df_magento_eur = NoFrame
    /\ df_ga4 = NoFrame
    /\ merged_df = <<>>
    /\ pcK = "idle"
    /\ df_merged = {}
    /\ kpi_data = <<>>
    /\ pcC = "idle"
    /\ df_coverage = NoFrame
    /\ df_coverage_clean = {}
    /\ df_weekly = <<>>
    /\ claude = "ok"
    /\ coverage_analysis = "none"
    /\ scorecard = NoScorecard("none")
    /\ pcT = "idle"
    /\ df_product = {}
    /\ top_n = [kind |-> "int", val |-> 5]
    /\ product_data = <<>>
    /\ total_revenue_change = [inf |-> FALSE, val |-> 0]
    /\ pcS = "idle"
    /\ doc_id = "unset"
    /\ next_send = 1
    /\ posted = 0
    /\ ret = "none"
    /\ cause = "none"
    /\ attempts = 0
    /\ pcR = "idle"
    /\ service = [s \in CommentarySections |-> "ok"]
    /\ weeks = 0
    /\ kpis_to_analyze = <<>>
    /\ report_texts = [s \in CommentarySections |-> "none"]
    /\ artefacts = {}
    /\ pcA = "idle"
    /\ value_to_analyze = "None"
    /\ kpis_data = {}
    /\ call_outcome = [k \in KpiKeys |-> "ok"]
    /\ loop_rest = <<>>
    /\ analyses = <<>>
    /\ requested = <<>>
    /\ pcG = "idle"
    /\ env = [c \in Credentials |-> "set"]
    /\ feeds_called = {}
    /\ pcN = "idle"
    /\ window_years = 1
    /\ holiday_feed = [i \in 1..2 |-> "ok"]
    /\ year_holidays = [i \in 1..2 |-> <<>>]
    /\ search_feed = [c \in 1..Len(QueryCategories) |-> "ok"]
    /\ holidays = <<>>
    /\ all_results = <<>>
    /\ combined_results = <<>>
    /\ component_next = 1
    /\ windows = [c \in 1..Len(WindowComponents) |-> NoPeriods]
    /\ ticks = 0
    /\ pcL = "idle"
    /\ max_retries = 5
    /\ delay = 1
    /\ retries = 0
    /\ slept = 0
    /\ request_log = <<>>
    /\ raised_error = "none"

SpecDocument == InitDocument /\ [][NextD]_vars

\* the initial states of a call of the window resolutions of one run
InitWindows ==
    /\ run_date = [kind |-> "none", ord |-> 0, hour |-> 0]
    /\ now \in NowDays
    /\ component_next = 1
    /\ windows = [c \in 1..Len(WindowComponents) |-> NoPeriods]
    /\ ticks = 0
    /\ pcP = "idle"
    /\ periods = NoPeriods
    /\ pcX = "idle"
    /\ df = {}
    /\ yf = <<>>
    /\ todo = {}
    /\ rates_by_currency_date = <<>>
    /\ df_copy = {}
    /\ df_grouped = <<>>
    /\ pcM = "idle"
    /\ df_magento_eur = NoFrame
    /\ df_ga4 = NoFrame
    /\ merged_df = <<>>
    /\ pcK = "idle"
    /\ df_merged = {}
    /\ kpi_data = <<>>
    /\ pcC = "idle"
    /\ df_coverage = NoFrame
    /\ df_coverage_clean = {}
    /\ df_weekly = <<>>
    /\ claude = "ok"
    /\ coverage_analysis = "none"
    /\ scorecard = NoScorecard("none")
    /\ pcT = "idle"
    /\ df_product = {}
    /\ top_n = [kind |-> "int", val |-> 5]
    /\ product_data = <<>>
    /\ total_revenue_change = [inf |-> FALSE, val |-> 0]
    /\ pcS = "idle"
    /\ doc_id = "unset"
    /\ next_send = 1
    /\ posted = 0
    /\ ret = "none"
    /\ cause = "none"
    /\ attempts = 0
    /\ pcR = "idle"
    /\ service = [s \in CommentarySections |-> "ok"]
    /\ weeks = 0
    /\ kpis_to_analyze = <<>>
    /\ report_texts = [s \in CommentarySections |-> "none"]
    /\ artefacts = {}
    /\ pcA = "idle"
    /\ value_to_analyze = "None"
    /\ kpis_data = {}
    /\ call_outcome = [k \in KpiKeys |-> "ok"]
    /\ loop_rest = <<>>
    /\ analyses = <<>>
    /\ requested = <<>>
    /\ pcG = "idle"
    /\ env = [c \in Credentials |-> "set"]
    /\ feeds_called = {}
    /\ pcN = "idle"
    /\ window_years = 1
    /\ holiday_feed = [i \in 1..2 |-> "ok"]
    /\ year_holidays = [i \in 1..2 |-> <<>>]
    /\ search_feed = [c \in 1..Len(QueryCategories) |-> "ok"]
    /\ holidays = <<>>
    /\ all_results = <<>>
    /\ combined_results = <<>>
    /\ pcD = "idle"
    /\ chart_fate = [c \in DocCharts |-> "uploaded"]
    /\ upload_next = 1
    /\ section_next = 1
    /\ image_ids = {}
    /\ doc_log = <<>>
    /\ pcL = "idle"
    /\ max_retries = 5
    /\ delay = 1
    /\ retries = 0
    /\ slept = 0
    /\ request_log = <<>>
    /\ raised_error = "none"

SpecWindows == InitWindows /\ [][NextW]_vars

\* the initial states of a call of execute_with_rate_limiting
InitRetry ==
    /\ pcL = "loop"
    /\ max_retries \in 0..MaxRetriesArg
    /\ delay \in InitialDelays
    /\ retries = 0
    /\ slept = 0
    /\ request_log = <<>>
    /\ raised_error = "none"
    /\ run_date = [kind |-> "none", ord |-> 0, hour |-> 0]
    /\ now = FirstRefDay
    /\ pcP = "idle"
    /\ periods = NoPeriods
    /\ pcX = "idle"
    /\ df = {}
    /\ yf = <<>>
    /\ todo = {}
    /\ rates_by_currency_date = <<>>
    /\ df_copy = {}
    /\ df_grouped = <<>>
    /\ pcM = "idle"
    /\ df_magento_eur = NoFrame
    /\ df_ga4 = NoFrame
    /\ merged_df = <<>>
    /\ pcK = "idle"
    /\ df_merged = {}
    /\ kpi_data = <<>>
    /\ pcC = "idle"
    /\ df_coverage = NoFrame
    /\ df_coverage_clean = {}
    /\ df_weekly = <<>>
    /\ claude = "ok"
    /\ coverage_analysis = "none"
    /\ scorecard = NoScorecard("none")
    /\ pcT = "idle"
    /\ df_product = {}
    /\ top_n = [kind |-> "int", val |-> 5]
    /\ product_data = <<>>
    /\ total_revenue_change = [inf |-> FALSE, val |-> 0]
    /\ pcS = "idle"
    /\ doc_id = "unset"
    /\ next_send = 1
    /\ posted = 0
    /\ ret = "none"
    /\ cause = "none"
    /\ attempts = 0
    /\ pcR = "idle"
    /\ service = [s \in CommentarySections |-> "ok"]
    /\ weeks = 0
    /\ kpis_to_analyze = <<>>
    /\ report_texts = [s \in CommentarySections |-> "none"]
    /\ artefacts = {}
    /\ pcA = "idle"
    /\ value_to_analyze = "None"
    /\ kpis_data = {}
    /\ call_outcome = [k \in KpiKeys |-> "ok"]
    /\ loop_rest = <<>>
    /\ analyses = <<>>
    /\ requested = <<>>
    /\ pcG = "idle"
    /\ env = [c \in Credentials |-> "set"]
    /\ feeds_called = {}
    /\ pcN = "idle"
    /\ window_years = 1
    /\ holiday_feed = [i \in 1..2 |-> "ok"]
    /\ year_holidays = [i \in 1..2 |-> <<>>]
    /\ search_feed = [c \in 1..Len(QueryCategories) |-> "ok"]
    /\ holidays = <<>>
    /\ all_results = <<>>
    /\ combined_results = <<>>
    /\ pcD = "idle"
    /\ chart_fate = [c \in DocCharts |-> "uploaded"]
    /\ upload_next = 1
    /\ section_next = 1
    /\ image_ids = {}
    /\ doc_log = <<>>
    /\ component_next = 1
    /\ windows = [c \in 1..Len(WindowComponents) |-> NoPeriods]
    /\ ticks = 0

SpecRetry == InitRetry /\ [][NextL]_vars

\* the initial states of the coverage steps or of a call of
\* analyze_top_products
InitRatios ==
    \/ /\ pcC = "clean"
       /\ run_date \in CovRunDates
       /\ now \in CovNowDays
       /\ df_coverage \in CoverageFeeds(IF run_date.kind = "none" THEN now ELSE run_date.ord)
       /\ df_coverage_clean = {}
       /\ df_weekly = <<>>
       /\ claude \in {"ok", "error"}
       /\ coverage_analysis = "none"
       /\ scorecard = NoScorecard("none")
       /\ pcP = "idle"
       /\ periods = NoPeriods
       /\ pcX = "idle"
       /\ df = {}
       /\ yf = <<>>
       /\ todo = {}
       /\ rates_by_currency_date = <<>>
       /\ df_copy = {}
       /\ df_grouped = <<>>
       /\ pcM = "idle"
       /\ df_magento_eur = NoFrame
       /\ df_ga4 = NoFrame
       /\ merged_df = <<>>
       /\ pcK = "idle"
       /\ df_merged = {}
       /\ kpi_data = <<>>
       /\ pcT = "idle"
       /\ df_product = {}
       /\ top_n = [kind |-> "int", val |-> 5]
       /\ product_data = <<>>
       /\ total_revenue_change = [inf |-> FALSE, val |-> 0]
       /\ pcS = "idle"
       /\ doc_id = "unset"
       /\ next_send = 1
       /\ posted = 0
       /\ ret = "none"
       /\ cause = "none"
       /\ attempts = 0
       /\ pcR = "idle"
       /\ service = [s \in CommentarySections |-> "ok"]
       /\ weeks = 0
       /\ kpis_to_analyze = <<>>
       /\ report_texts = [s \in CommentarySections |-> "none"]
       /\ artefacts = {}
       /\ pcA = "idle"
       /\ value_to_analyze = "None"
       /\ kpis_data = {}
       /\ call_outcome = [k \in KpiKeys |-> "ok"]
       /\ loop_rest = <<>>
       /\ analyses = <<>>
       /\ requested = <<>>
       /\ pcG = "idle"
       /\ env = [c \in Credentials |-> "set"]
       /\ feeds_called = {}
       /\ pcN = "idle"
       /\ window_years = 1
       /\ holiday_feed = [i \in 1..2 |-> "ok"]
       /\ year_holidays = [i \in 1..2 |-> <<>>]
       /\ search_feed = [c \in 1..Len(QueryCategories) |-> "ok"]
       /\ holidays = <<>>
       /\ all_results = <<>>
       /\ combined_results = <<>>
       /\ pcD = "idle"
       /\ chart_fate = [c \in DocCharts |-> "uploaded"]
       /\ upload_next = 1
       /\ section_next = 1
       /\ image_ids = {}
       /\ doc_log = <<>>
       /\ component_next = 1
       /\ windows = [c \in 1..Len(WindowComponents) |-> NoPeriods]
       /\ ticks = 0
       /\ pcL = "idle"
       /\ max_retries = 5
       /\ delay = 1
       /\ retries = 0
       /\ slept = 0
       /\ request_log = <<>>
       /\ raised_error = "none"
    \/ /\ pcT = "call"
       /\ run_date \in ProductRunDates
       /\ now \in KpiNowDays
       /\ df_product \in ProductFrames
       /\ top_n \in TopNArgs
       /\ product_data = <<>>
       /\ total_revenue_change = [inf |-> FALSE, val |-> 0]
       /\ pcP = "idle"
       /\ periods = NoPeriods
       /\ pcX = "idle"
       /\ df = {}
       /\ yf = <<>>
       /\ todo = {}
       /\ rates_by_currency_date = <<>>
       /\ df_copy = {}
       /\ df_grouped = <<>>
       /\ pcM = "idle"
       /\ df_magento_eur = NoFrame
       /\ df_ga4 = NoFrame
       /\ merged_df = <<>>
       /\ pcK = "idle"
       /\ df_merged = {}
       /\ kpi_data = <<>>
       /\ pcC = "idle"
       /\ df_coverage = NoFrame
       /\ df_coverage_clean = {}
       /\ df_weekly = <<>>
       /\ claude = "ok"
       /\ coverage_analysis = "none"
       /\ scorecard = NoScorecard("none")
       /\ pcS = "idle"
       /\ doc_id = "unset"
       /\ next_send = 1
       /\ posted = 0
       /\ ret = "none"
       /\ cause = "none"
       /\ attempts = 0
       /\ pcR = "idle"
       /\ service = [s \in CommentarySections |-> "ok"]
       /\ weeks = 0
       /\ kpis_to_analyze = <<>>
       /\ report_texts = [s \in CommentarySections |-> "none"]
       /\ artefacts = {}
       /\ pcA = "idle"
       /\ value_to_analyze = "None"
       /\ kpis_data = {}
       /\ call_outcome = [k \in KpiKeys |-> "ok"]
       /\ loop_rest = <<>>
       /\ analyses = <<>>
       /\ requested = <<>>
       /\ pcG = "idle"
       /\ env = [c \in Credentials |-> "set"]
       /\ feeds_called = {}
       /\ pcN = "idle"
       /\ window_years = 1
       /\ holiday_feed = [i \in 1..2 |-> "ok"]
       /\ year_holidays = [i \in 1..2 |-> <<>>]
       /\ search_feed = [c \in 1..Len(QueryCategories) |-> "ok"]
       /\ holidays = <<>>
       /\ all_results = <<>>
       /\ combined_results = <<>>
       /\ pcD = "idle"
       /\ chart_fate = [c \in DocCharts |-> "uploaded"]
       /\ upload_next = 1
       /\ section_next = 1
       /\ image_ids = {}
       /\ doc_log = <<>>
       /\ component_next = 1
       /\ windows = [c \in 1..Len(WindowComponents) |-> NoPeriods]
       /\ ticks = 0
       /\ pcL = "idle"
       /\ max_retries = 5
       /\ delay = 1
       /\ retries = 0
       /\ slept = 0
       /\ request_log = <<>>
       /\ raised_error = "none"

NextRatios == NextC \/ NextT

SpecRatios == InitRatios /\ [][NextRatios]_vars

\* execute_with_rate_limiting runs on: the interpreter takes the next step
\* of the function whenever there is one
SpecRetryFair == InitRetry /\ [][NextL]_vars /\ WF_vars(NextL)
-----------------------------------------------------------------------------
(* C1: for any reference date, both windows start on a Monday and end on    *)
(* the Sunday six days later (seven days each), the prior window ends the   *)
(* day before the current one starts, and the current window ends the day   *)
(* before the Monday of the reference date's own week.                      *)

\* the reference date the caller means
RefDate == IF run_date.kind = "none" THEN now ELSE run_date.ord

\* the Monday of the week that holds day d
MondayOfWeek(d) == CHOOSE m \in (d - 6)..d : weekday(m) = 0

C1_WindowsAreConsecutiveWeeks ==
    pcP = "done" =>
        LET cs == strptime(periods.analysis_period.start)
            ce == strptime(periods.analysis_period.end)
            ps == strptime(periods.previous_period.start)
            pe == strptime(periods.previous_period.end)
        IN /\ weekday(cs) = 0 /\ weekday(ps) = 0
           /\ ce = cs + 6 /\ pe = ps + 6
           /\ weekday(ce) = 6 /\ weekday(pe) = 6
           /\ pe + 1 = cs
           /\ ce + 1 = MondayOfWeek(RefDate)

\* a mid-week reference date given as a datetime late in the day
C1_Witness ==
    /\ pcP = "done"
    /\ run_date.kind = "datetime" /\ run_date.hour = 23
    /\ weekday(run_date.ord) = 2
    /\ periods.analysis_period.end = strftime(run_date.ord - 3)
-----------------------------------------------------------------------------
(* C10: in the Coverage Reconciler a comparison window with no matching     *)
(* rows is reported as zeros: the weekly frame has one entry for each of    *)
(* the two windows, and the run goes on to produce the weekly commentary    *)
(* and the scorecard.                                                       *)

\* the weekly frame has been computed
WeeklyComputed == pcC \in {"commentary", "chart", "done", "raised"}

-----------------------------------------------------------------------------
(* C13: a coverage feed row whose primary count is 0 is excluded from the   *)
(* aggregation: the weekly sums and rates produced by clean_coverage_data   *)
(* followed by calculate_weekly_coverage are those of the feed without      *)
(* that row.                                                                *)

\* the feed without its rows of primary count 0
WithoutNoPrimary(frame) ==
    [frame EXCEPT !.rows = {r \in frame.rows : r["magento_transactions"] # 0}]

C13_NoPrimaryRowExcluded ==
    /\ pcC = "weekly" =>
           df_coverage_clean =
               clean_coverage_data(WithoutNoPrimary(df_coverage), run_date, now)
    /\ pcC = "commentary" =>
           \E tick \in ClockTicks :
               /\ df_coverage_clean =
                      clean_coverage_data(WithoutNoPrimary(df_coverage),
                                          run_date, now - tick)
               /\ df_weekly =
                      calculate_weekly_coverage(
                          clean_coverage_data(WithoutNoPrimary(df_coverage),
                                              run_date, now - tick),
                          run_date, now)

\* the earlier week has a day of primary count 0 with 5 secondary orders
\* and a day of 10 primary and 9 secondary orders: the week reports 10 and 9
C13_Witness ==
    /\ pcC = "commentary"
    /\ \E r \in df_coverage.rows :
           /\ r["order_date"] = KpiMonday - 10
           /\ r["magento_transactions"] = 0
           /\ r["ga4_transactions"] = 5
    /\ \E r \in df_coverage.rows :
           /\ r["order_date"] = KpiMonday - 9
           /\ r["magento_transactions"] = 10
    /\ Len(df_weekly) = 2
    /\ df_weekly[2].week_start = KpiMonday - 14
    /\ df_weekly[2].magento_transactions = 10
    /\ df_weekly[2].ga4_transactions = 9
    /\ df_weekly[2].transaction_coverage_rate = <<900, 10>>

-----------------------------------------------------------------------------
(* C15: the coverage value of the most recent week is classified into       *)
(* exactly one band: CRITICAL below 50, WARNING from 50 up to but not       *)
(* including 80, GOOD from 80 on (also above 100); the value classified is  *)
(* the one of the week with the latest week_start.                          *)

\* the entry of the weekly frame with the latest week_start
MostRecentWeek ==
    df_weekly[CHOOSE i \in 1..Len(df_weekly) :
                  \A j \in 1..Len(df_weekly) :
                      df_weekly[j].week_start <= df_weekly[i].week_start]

\* 100 * numerator / denominator of the most recent week, against a bound
MostRecentBelow(bound) ==
    MostRecentWeek.transaction_coverage_rate[1]
        < bound * MostRecentWeek.transaction_coverage_rate[2]

C15_StatusBands ==
    (pcC = "done" /\ scorecard.shown = "card") =>
        /\ scorecard.value = MostRecentWeek.transaction_coverage_rate
        /\ scorecard.status \in {"CRITICAL", "WARNING", "GOOD"}
        /\ scorecard.status = "CRITICAL" <=> MostRecentBelow(50)
        /\ scorecard.status = "WARNING" <=>
               (~MostRecentBelow(50) /\ MostRecentBelow(80))
        /\ scorecard.status = "GOOD" <=> ~MostRecentBelow(80)

\* the most recent week has a coverage of exactly 50: WARNING
C15_Witness ==
    /\ pcC = "done"
    /\ scorecard.shown = "card"
    /\ Len(df_weekly) = 2
    /\ df_weekly[1].week_start > df_weekly[2].week_start
    /\ df_weekly[1].magento_transactions = 10
    /\ df_weekly[1].ga4_transactions = 5
    /\ scorecard.status = "WARNING"

-----------------------------------------------------------------------------
(* C24: in create_weekly_google_doc_report an inline-image insertion        *)
(* request that references a chart id is issued only after the upload of    *)
(* that chart has succeeded and returned the id; a chart whose upload       *)
(* failed or whose file is missing is never referenced by an insertion      *)
(* request, and the text of its section is still written.                   *)

\* the positions of the log that hold the entry
PositionsOf(kind, chart) ==
    {i \in 1..Len(doc_log) : doc_log[i] = <<kind, chart>>}

\* the sections written so far
SectionsWritten == {SectionOrder[i] : i \in 1..(section_next - 1)}

C24_InsertOnlyAfterUpload ==
    \A chart \in DocCharts :
        /\ \A i \in PositionsOf("insert", chart) :
               /\ chart_fate[chart] = "uploaded"
               /\ \E j \in PositionsOf("upload", chart) : j < i
        /\ chart_fate[chart] # "uploaded" => PositionsOf("insert", chart) = {}
        /\ chart \in SectionsWritten => PositionsOf("text", chart) # {}

\* one chart was uploaded and inserted, the file of another was missing and
\* the upload of a third failed, and the texts of all three were written
C24_Witness ==
    /\ pcD = "returned"
    /\ chart_fate["sessions"] = "uploaded"
    /\ PositionsOf("insert", "sessions") # {}
    /\ chart_fate["ecr"] = "missing"
    /\ chart_fate["products"] = "upload_fails"
    /\ PositionsOf("text", "ecr") # {}
    /\ PositionsOf("text", "products") # {}
    /\ PositionsOf("insert", "ecr") = {}
    /\ PositionsOf("insert", "products") = {}

-----------------------------------------------------------------------------
(* C22: if a required credential or identifier is absent (for example the   *)
(* commentary-service API key or the chat token), the run aborts before any *)
(* external data feed (news search, holiday lookup, transactional,          *)
(* behavioral or reconciliation query) has been called.                     *)

SomeCredentialAbsent == \E c \in Credentials : env[c] = "absent"

C22_AbortsBeforeAnyFeed ==
    SomeCredentialAbsent =>
        /\ feeds_called = {}
        /\ pcG \notin {"publish", "done"}

-----------------------------------------------------------------------------
(* C5: for every KPI, percent_change is the +infinity sentinel if and only  *)
(* if the prior window value is exactly 0 and the current one is nonzero,   *)
(* is 0 when both are 0, and is (current - prior) / prior * 100 (reported   *)
(* to one decimal) otherwise.                                               *)

\* v (in tenths) is x / q * 100 to one decimal
IsPercentOf(v, x, q) ==
    LET diff == v * q - 1000 * x
        absd == IF diff < 0 THEN 0 - diff ELSE diff
        absq == IF q < 0 THEN 0 - q ELSE q
    IN 2 * absd <= absq

C5_PercentChangeSentinel ==
    pcK = "done" =>
        \A k \in KpiNames :
            LET current == kpi_data.kpis[k].previous_week
                prior   == kpi_data.kpis[k].earlier_week
                change  == kpi_data.kpis[k].percent_change
            IN /\ change.inf <=> (prior = 0 /\ current # 0)
               /\ (prior = 0 /\ current = 0) => (~change.inf /\ change.val = 0)
               /\ prior # 0 =>
                      (~change.inf /\ IsPercentOf(change.val, current - prior, prior))

-----------------------------------------------------------------------------
(* C8: every [date, value] entry of every KPI timeline has a date no later  *)
(* than the end (Sunday) of the current comparison window.                  *)

-----------------------------------------------------------------------------
(* C9: a comparison window with no row of the merged table inside it has 0  *)
(* for all six KPIs, the call returns, and the other window's KPIs are      *)
(* computed as usual.                                                       *)

RowsBetween(first, last) ==
    {r \in df_merged : strptime(first) <= r["date"] /\ r["date"] <= strptime(last)}

CurrentWindowRows ==
    RowsBetween(kpi_data.date_ranges.analysis_period.start,
                kpi_data.date_ranges.analysis_period.end)

PriorWindowRows ==
    RowsBetween(kpi_data.date_ranges.previous_period.start,
                kpi_data.date_ranges.previous_period.end)

\* the sums a window with rows reports
ReportsSumsOf(values, rows) ==
    /\ values["transaction_count"] = SumCol(rows, "transaction_count")
    /\ values["sessions"] = SumCol(rows, "sessions")
    /\ 10 * values["total_revenue_eur"] - SumCol(rows, "total_revenue_eur") \in -5..5

-----------------------------------------------------------------------------
(* C11: when the merged table carries daily conversion rates and all days   *)
(* of a window have the same nonzero session count, the window conversion   *)
(* rate equals total_conversions / total_sessions * 100 for that window.    *)

\* the window value of the KPI named k: the current window is "previous_week"
WindowValue(k, which) == kpi_data.kpis[k][which]

WindowRowsOf(which) ==
    IF which = "previous_week" THEN CurrentWindowRows ELSE PriorWindowRows

\* all days of the window have the same nonzero session count
SameSessions(rows) ==
    /\ rows # {}
    /\ \A r \in rows : r["sessions"] > 0
    /\ \A r, q \in rows : r["sessions"] = q["sessions"]

\* v (in tenths) is x / q to one decimal, q > 0
IsRounded(v, x, q) == v = RoundDiv(10 * x, q)

RateIsOwnRatio(r) ==
    IF r["sessions"] > 0
    THEN r["ecr"][1] * r["sessions"] = 100 * r["transaction_count"] * r["ecr"][2]
    ELSE r["ecr"][1] = 0

RECURSIVE RateSum(_)
\* the sum of the daily rates of the rows, as a pair
RateSum(rows) ==
    IF rows = {} THEN <<0, 1>>
    ELSE LET r    == CHOOSE x \in rows : TRUE
             rest == RateSum(rows \ {r})
         IN <<r["ecr"][1] * rest[2] + rest[1] * r["ecr"][2],
              r["ecr"][2] * rest[2]>>

-----------------------------------------------------------------------------
(* C12: average order value is revenue / count and is 0 whenever count is   *)
(* 0, for each window and for each day of the timeline; revenue 5000 with   *)
(* count 100 in the current window and revenue 4000 with count 80 in the    *)
(* prior one give 50.0 twice and a percent change of 0.0.                   *)

\* v (in tenths) is revenue (in cents) / count to one decimal, 0 for count 0
IsAov(v, revenue, count) ==
    IF count = 0 THEN v = 0
    ELSE LET diff == 10 * count * v - revenue
             absd == IF diff < 0 THEN 0 - diff ELSE diff
         IN 2 * absd <= 10 * count

\* the row of the merged table dated by the string s
RowOfDay(s) == CHOOSE r \in df_merged : strftime(r["date"]) = s

C12_AovIsRevenuePerOrder ==
    pcK = "done" =>
        LET aov == kpi_data.kpis["aov_eur"]
        IN /\ IsAov(aov.previous_week,
                    SumCol(CurrentWindowRows, "total_revenue_eur"),
                    SumCol(CurrentWindowRows, "transaction_count"))
           /\ IsAov(aov.earlier_week,
                    SumCol(PriorWindowRows, "total_revenue_eur"),
                    SumCol(PriorWindowRows, "transaction_count"))
           /\ \A i \in 1..Len(aov.timeline) :
                  LET r == RowOfDay(aov.timeline[i][1])
                  IN IsAov(aov.timeline[i][2], r["total_revenue_eur"],
                           r["transaction_count"])
           /\ (/\ SumCol(CurrentWindowRows, "total_revenue_eur") = 500000
               /\ SumCol(CurrentWindowRows, "transaction_count") = 100
               /\ SumCol(PriorWindowRows, "total_revenue_eur") = 400000
               /\ SumCol(PriorWindowRows, "transaction_count") = 80) =>
                  /\ aov.previous_week = 500
                  /\ aov.earlier_week = 500
                  /\ aov.percent_change = [inf |-> FALSE, val |-> 0]

\* the scenario of the claim, with a day without orders in the timeline
C12_Witness ==
    /\ pcK = "done"
    /\ SumCol(CurrentWindowRows, "total_revenue_eur") = 500000
    /\ SumCol(CurrentWindowRows, "transaction_count") = 100
    /\ SumCol(PriorWindowRows, "total_revenue_eur") = 400000
    /\ SumCol(PriorWindowRows, "transaction_count") = 80
    /\ kpi_data.kpis["aov_eur"].previous_week = 500
    /\ kpi_data.kpis["aov_eur"].earlier_week = 500
    /\ kpi_data.kpis["aov_eur"].percent_change.val = 0
    /\ \E i \in 1..Len(kpi_data.kpis["aov_eur"].timeline) :
           /\ RowOfDay(kpi_data.kpis["aov_eur"].timeline[i][1])["transaction_count"] = 0
           /\ RowOfDay(kpi_data.kpis["aov_eur"].timeline[i][1])["total_revenue_eur"] # 0
           /\ kpi_data.kpis["aov_eur"].timeline[i][2] = 0
    /\ \E i \in 1..Len(kpi_data.kpis["aov_eur"].timeline) :
           kpi_data.kpis["aov_eur"].timeline[i][2] = 500

-----------------------------------------------------------------------------
(* C28: execute_with_rate_limiting always terminates: it returns the result *)
(* of the first invocation of the request function that succeeds, re-raises *)
(* at once (without another attempt) the first error that is not a          *)
(* rate-limit error, and under persistent rate-limit errors retries at most *)
(* max_retries times after the initial attempt before raising its failure   *)
(* exception; the request function is never invoked again after a success   *)
(* or a raised error.                                                       *)

\* every invocation but the last ended in a rate-limit error
OnlyRateLimitsBeforeLast ==
    \A i \in 1..(Len(request_log) - 1) :
        request_log[i] \in {"status_429", "quota_text"}

RetryDiscipline ==
    /\ Len(request_log) <= max_retries + 1
    /\ OnlyRateLimitsBeforeLast
    /\ pcL = "returned" =>
           /\ request_log[Len(request_log)] = "ok"
           /\ raised_error = "none"
    /\ raised_error = "request_error" =>
           /\ pcL = "raised"
           /\ request_log[Len(request_log)] = "other_error"
    /\ raised_error = "failure_exception" =>
           /\ pcL = "raised"
           /\ \A i \in 1..Len(request_log) :
                  request_log[i] \in {"status_429", "quota_text"}
    /\ pcL = "loop" =>
           \A i \in 1..Len(request_log) :
               request_log[i] \in {"status_429", "quota_text"}

C28_RetryTerminates ==
    /\ []RetryDiscipline
    /\ <>(pcL \in {"returned", "raised"})

\* two rate-limit errors, then a success on the third invocation
C28_Witness ==
    /\ pcL = "returned"
    /\ request_log = <<"status_429", "quota_text", "ok">>
    /\ slept = 3

-----------------------------------------------------------------------------
(* C6: given two daily series with at most one row per date each, the       *)
(* merged frame has exactly one row for every date of either series, the    *)
(* fields of the absent source are 0, and the rows are in descending order  *)
(* of date.                                                                 *)

MagentoDates == {r["order_day"] : r \in df_magento_eur.rows}
Ga4Dates     == {r["date"] : r \in df_ga4.rows}
MergedDates  == {merged_df[i]["date"] : i \in 1..Len(merged_df)}

-----------------------------------------------------------------------------
(* C7 (as stated): the merged frame has a row for every calendar date       *)
(* between the earliest and the latest date of the two series, also for a   *)
(* date that neither series holds.                                          *)

CalendarSpan ==
    SetMin(MagentoDates \cup Ga4Dates)..SetMax(MagentoDates \cup Ga4Dates)

-----------------------------------------------------------------------------
(* C26: each core component leaves its input tables unchanged: after        *)
(* merge_data_sources, analyze_weekly_kpis, clean_coverage_data or          *)
(* calculate_weekly_coverage returns, every table passed in by the caller   *)
(* has the same columns and the same values as before the call. Stated here *)
(* for merge_data_sources and its two arguments.                            *)

C26_InputTablesUnchanged ==
    [][(pcM = "call" /\ pcM' = "done") =>
           /\ df_magento_eur'.columns = df_magento_eur.columns
           /\ df_magento_eur'.rows = df_magento_eur.rows
           /\ df_ga4'.columns = df_ga4.columns
           /\ df_ga4'.rows = df_ga4.rows]_vars

-----------------------------------------------------------------------------
(* C23: the auxiliary feeds fail closed: on any failure (timeout,           *)
(* connection error, non-200 status, any other exception) get_holidays      *)
(* returns an empty list and perform_search returns an empty result set,    *)
(* neither ever raises, and fetch_news_from_tavily still returns a combined *)
(* result so that the rest of the run proceeds.                             *)

\* the second holiday request is made
SecondRequestMade == window_years = 2 /\ holiday_feed[1] = "ok"

\* some holiday request that is made does not end well
HolidayFailure ==
    \/ holiday_feed[1] # "ok"
    \/ SecondRequestMade /\ holiday_feed[2] # "ok"

\* a holiday request that is made ends in an exception, or the first one
\* ends in a status other than 200
HolidayFailureClosed ==
    \/ holiday_feed[1] # "ok"
    \/ SecondRequestMade /\ holiday_feed[2] \in FeedExceptions

\* the searches at least one of which failed give empty result sets, and
\* the combined result is returned
SearchesFailClosed ==
    /\ \A i \in 1..Len(QueryCategories) :
           search_feed[i] = "error" => combined_results.results[i] = <<>>
    /\ Len(combined_results.results) = Len(QueryCategories)

-----------------------------------------------------------------------------
(* C21: analyze_kpis_with_claude returns one entry for every requested KPI  *)
(* that is present in the KPI data, whatever subset of the commentary calls *)
(* fails: a failed call yields the failure placeholder for that KPI only,   *)
(* and the commentary of every later KPI is still requested.                *)

\* the requested KPIs that are keys of the data, in the order of the request
RequestedPresent ==
    SelectSeq(KpisToAnalyze(value_to_analyze), LAMBDA k : k \in kpis_data)

C21_OneEntryPerRequestedKpi ==
    pcA = "returned" =>
        /\ DOMAIN analyses = {RequestedPresent[i] : i \in 1..Len(RequestedPresent)}
        /\ requested = RequestedPresent
        /\ \A k \in DOMAIN analyses :
               analyses[k] = IF call_outcome[k] = "ok" THEN "analysis"
                             ELSE FailurePlaceholder(k)

\* the first commentary call failed and a later KPI was still answered
C21_Witness ==
    /\ pcA = "returned"
    /\ Len(requested) >= 3
    /\ call_outcome[requested[1]] = "error"
    /\ analyses[requested[1]] = FailurePlaceholder(requested[1])
    /\ analyses[requested[3]] = "analysis"
    /\ \E k \in KpiKeys : k \notin kpis_data
-----------------------------------------------------------------------------
(* C19: when a commentary-service or publishing call fails because of rate  *)
(* limiting, the same call is attempted again, with a growing delay, up to  *)
(* a bounded number of attempts; only after the attempts are exhausted is   *)
(* the failure reported for that step. Stated here for the publishing       *)
(* calls: a document or chat step that reports a failure caused by rate     *)
(* limiting has issued the failing request more than once.                  *)

C19_RateLimitedCallIsRetried ==
    (ret \in {"False", "None"} /\ cause = "rate_limited") => attempts >= 2

-----------------------------------------------------------------------------
(* C20: a failure of the commentary service in any section (news summary, a *)
(* KPI, top products, coverage) never aborts the run: the section's text is *)
(* replaced by a failure placeholder and all following steps (charts,       *)
(* document creation, chat publishing) still execute.                       *)

\* the section has asked the commentary service and the service failed
AskedAndFailed(section) ==
    /\ service[section] # "ok"
    /\ section = "coverage" => weeks >= 2

C20_CommentaryFailureNeverAborts ==
    /\ pcR # "raised"
    /\ pcR = "done" =>
           /\ artefacts = AllArtefacts
           /\ \A section \in CommentarySections :
                  AskedAndFailed(section) =>
                      report_texts[section] = FailurePlaceholder(section)

-----------------------------------------------------------------------------
(* C25: publishing is not transactional: a failed chat or document write is *)
(* reported (send_slack_report_with_image returns False,                    *)
(* create_weekly_google_doc_report returns None) without deleting or        *)
(* re-sending anything already published, and every later section of the    *)
(* chat report is still attempted, also when the document could not be      *)
(* created.                                                                 *)

C25_FailedWriteIsReportedAndRunGoesOn ==
    /\ cause # "none" =>
           /\ ret \in {"False", "None"}
           /\ pcS \in {"chat", "done"}
    /\ pcS = "done" => next_send = Len(Sends) + 1
-----------------------------------------------------------------------------
(* C14: every ratio with a zero denominator yields 0: the weekly            *)
(* transaction and revenue coverage when the primary total is 0, an         *)
(* entity's share when the window total is 0, an entity's daily share when  *)
(* the daily total is 0.                                                    *)

\* the rows of the product feed inside a window of the returned date ranges
ProductRowsBetween(first, last) ==
    {r \in df_product :
        strptime(first) <= r["date"] /\ r["date"] <= strptime(last)}

CurrentProductRows ==
    ProductRowsBetween(product_data.date_ranges.analysis_period.start,
                       product_data.date_ranges.analysis_period.end)

PriorProductRows ==
    ProductRowsBetween(product_data.date_ranges.previous_period.start,
                       product_data.date_ranges.previous_period.end)

\* the revenue of one entity in a set of rows
EntityRevenue(rows, name) ==
    SumCol({r \in rows : r["product_name"] = name}, "revenue")

\* the entities the call returned
Returned_Entities == DOMAIN product_data.kpis

C14_ZeroDenominatorYieldsZero ==
    /\ WeeklyComputed =>
           \A i \in 1..Len(df_weekly) :
               /\ df_weekly[i].magento_transactions = 0 =>
                      df_weekly[i].transaction_coverage_rate = <<0, 1>>
               /\ df_weekly[i].magento_revenue = 0 =>
                      df_weekly[i].revenue_coverage_rate = <<0, 1>>
    /\ pcT = "done" =>
           \A name \in Returned_Entities :
               LET kpi == product_data.kpis[name]
               IN /\ SumCol(CurrentProductRows, "revenue") = 0 =>
                         kpi.revenue_eur_share_pct = 0
                  /\ SumCol(PriorProductRows, "revenue") = 0 =>
                         kpi.earlier_revenue_eur_share_pctt = 0
                  /\ \A i \in 1..Len(kpi.daily_share_pct) :
                         SumCol({r \in df_product :
                                    strftime(r["date"]) = kpi.daily_share_pct[i][1]},
                                "revenue") = 0 =>
                             kpi.daily_share_pct[i][2] = 0

\* an entity is returned while the current window's rows sum to 0 and the
\* earlier week has no revenue at all: its shares and its daily share of
\* the day without revenue are 0
C14_Witness ==
    /\ pcT = "done"
    /\ CurrentProductRows # {}
    /\ SumCol(CurrentProductRows, "revenue") = 0
    /\ PriorProductRows # {}
    /\ SumCol(PriorProductRows, "revenue") = 0
    /\ \E name \in Returned_Entities :
           /\ product_data.kpis[name].revenue_eur_share_pct = 0
           /\ product_data.kpis[name].earlier_revenue_eur_share_pctt = 0
           /\ Len(product_data.kpis[name].daily_share_pct) = 2
           /\ product_data.kpis[name].daily_share_pct[1][2] = 0

-----------------------------------------------------------------------------
(* C16: analyze_top_products returns min(N', number of entities with a row  *)
(* in the current window) entities, N' being top_n when it is a positive    *)
(* integer and 5 otherwise; every returned entity has a current-window      *)
(* revenue at least that of every entity not returned, and the returned     *)
(* list is in non-increasing order of that revenue.                         *)

\* the entities with a row in the current window
CurrentEntities == {r["product_name"] : r \in CurrentProductRows}

\* N' of the claim
RequestedCount ==
    IF top_n.kind = "int" /\ top_n.val > 0 THEN top_n.val ELSE 5

C16_TopEntitiesByRevenue ==
    pcT = "done" =>
        LET list     == product_data.top_product_names
            returned == {list[i] : i \in 1..Len(list)}
            rev(e)   == EntityRevenue(CurrentProductRows, e)
        IN /\ Len(list) = IF RequestedCount < Cardinality(CurrentEntities)
                          THEN RequestedCount
                          ELSE Cardinality(CurrentEntities)
           /\ Cardinality(returned) = Len(list)
           /\ returned \subseteq CurrentEntities
           /\ Returned_Entities = returned
           /\ \A e \in returned : \A o \in CurrentEntities \ returned :
                  rev(e) >= rev(o)
           /\ \A i \in 1..Len(list) : \A j \in i..Len(list) :
                  rev(list[i]) >= rev(list[j])

\* three entities with revenues 15.00 (two rows), 30.00 and 10.00, top_n 2
C16_Witness ==
    /\ pcT = "done"
    /\ top_n = [kind |-> "int", val |-> 2]
    /\ Cardinality(CurrentEntities) = 3
    /\ product_data.top_product_names = <<"B", "A">>
    /\ product_data.kpis["B"].previous_week_revenue_eur = 300
    /\ product_data.kpis["A"].previous_week_revenue_eur = 150
    /\ EntityRevenue(CurrentProductRows, "C") = 1000

-----------------------------------------------------------------------------
(* C17: each entity's current-window share is computed against the total    *)
(* revenue of all entities in that window, not of the top N only; when      *)
(* top_n is at least the number of entities and the total is nonzero, the   *)
(* shares sum to 100 up to the rounding of each share to one decimal.       *)

RECURSIVE SumOfShares(_)
\* the sum of the current-window shares (in tenths) of a set of entities
SumOfShares(names) ==
    IF names = {} THEN 0
    ELSE LET name == CHOOSE x \in names : TRUE
         IN product_data.kpis[name].revenue_eur_share_pct
            + SumOfShares(names \ {name})

\* share (in tenths of a percent) is part / total * 100 to one decimal
IsShareOf(share, part, total) ==
    LET diff == share * total - 1000 * part
        absd == IF diff < 0 THEN 0 - diff ELSE diff
    IN 2 * absd <= total

-----------------------------------------------------------------------------
(* C18: for every pair (prior, current) of window revenue totals, the       *)
(* percent change of the Top-Entity Ranker is the value the rule of the     *)
(* Weekly KPI Aggregator gives for the same pair: the +infinity sentinel    *)
(* exactly when prior is 0 and current is nonzero, 0 when both are 0,       *)
(* (current - prior) / prior * 100 otherwise.                               *)

-----------------------------------------------------------------------------
(* C29: the total-revenue percent change passed to the top-products         *)
(* commentary follows the sentinel rule: it is 0, never infinity, when both *)
(* the current and the prior window totals are 0, and infinity only when    *)
(* the prior total is 0 and the current total is nonzero.                   *)

C29_TotalChangeFollowsSentinelRule ==
    pcT = "prompt" =>
        LET current == product_data.total_revenue.previous_week
            prior   == product_data.total_revenue.earlier_week
        IN /\ (prior = 0 /\ current = 0) =>
                  total_revenue_change = [inf |-> FALSE, val |-> 0]
           /\ total_revenue_change.inf => (prior = 0 /\ current # 0)

-----------------------------------------------------------------------------
(* C27: within one run started without an explicit reference date, every    *)
(* component that resolves comparison windows (report header, KPI           *)
(* aggregator, top-entity ranker, coverage cleaner, coverage reconciler,    *)
(* coverage commentary, coverage chart) uses the same current/prior window  *)
(* pair, for any advance of the wall clock between the steps of the run.    *)

C27_SameWindowsThroughoutTheRun ==
    \A c1, c2 \in 1..(component_next - 1) : windows[c1] = windows[c2]

-----------------------------------------------------------------------------
(* C2: the rate applied to a row of non-reporting currency C dated d is     *)
(* C's rate at d when the fetched series has one, otherwise C's rate at     *)
(* the most recent earlier date on which C has a rate, otherwise C's        *)
(* fallback constant, whatever other currencies are in the run.             *)

\* the days of the series yf.download returned for currency c
Returned(c) ==
    IF yf[c].kind = "error" THEN {}
    ELSE {d \in yf[c].days :
            /\ strptime(start_date(df)) <= d
            /\ d < strptime(end_date(df))}

ExpectedRate(c, d) ==
    LET earlier == {e \in Returned(c) : e <= d}
    IN IF earlier # {} THEN Close(c, SetMax(earlier))
       ELSE IF c \in DOMAIN fallback_rates THEN fallback_rates[c] ELSE 100

C2_RateIsOwnLatestOrFallback ==
    pcX = "done" =>
        \A r \in df_copy :
            r.currency # "EUR" =>
                /\ r.total_revenue_eur
                       = r.total_revenue * ExpectedRate(r.currency, r.order_day)
                /\ r.total_discount_eur
                       = r.total_discount * ExpectedRate(r.currency, r.order_day)

-----------------------------------------------------------------------------
(* C3: the amounts computed for the rows of currency B are the same         *)
(* whatever the fetch of any other currency did (data, no data, error),     *)
(* and no outcome of a fetch aborts the conversion.                         *)

RECURSIVE FetchAll(_, _, _, _)
\* the loop of lines 525-566 over the currencies of S
FetchAll(rates, S, feed, frame) ==
    IF S = {} THEN rates
    ELSE LET c == CHOOSE x \in S : TRUE
         IN FetchAll(StoreRates(rates, c, feed[c], frame), S \ {c}, feed, frame)

\* the converted rows of a run on `frame` in which the feed answers `feed`
RunWith(frame, feed) ==
    {ConvertRow(FetchAll(<<>>, NonReporting(frame), feed, frame), r) :
        r \in frame}

C3_FetchesAreIndependent ==
    /\ pcX # "raised"
    /\ pcX = "done" =>
        \A b \in NonReporting(df) :
            \A feed \in [NonReporting(df) -> Outcomes] :
                feed[b] = yf[b] =>
                    {r \in RunWith(df, feed) : r.currency = b}
                        = {r \in df_copy : r.currency = b}

-----------------------------------------------------------------------------
(* C4: when the feed returns no data or raises for a currency, every row    *)
(* of that currency is converted at the currency's fallback constant,       *)
(* whatever its date, and the conversion returns; a single USD row with     *)
(* revenue 1000 gives 920.00.                                               *)

C4_FallbackConstantOnFailedFetch ==
    /\ pcX # "raised"
    /\ pcX = "done" =>
        \A r \in df_copy :
            (r.currency \in DOMAIN fallback_rates /\ Returned(r.currency) = {})
            => /\ r.total_revenue_eur
                      = r.total_revenue * fallback_rates[r.currency]
               /\ r.total_discount_eur
                      = r.total_discount * fallback_rates[r.currency]
    /\ (/\ pcX = "done"
        /\ df = {FeedRow(FirstOrderDay, "USD")}
        /\ Returned("USD") = {})
       => /\ Len(df_grouped) = 1
          /\ df_grouped[1].order_day = strptime(<<2024, 5, 6>>)
          /\ df_grouped[1].transaction_count = 10
          /\ df_grouped[1].total_revenue_eur = 92000

\* the scenario of the specification: one USD row, the feed has no data
C4_Witness ==
    /\ pcX = "done"
    /\ df = {FeedRow(FirstOrderDay, "USD")}
    /\ yf["USD"] = [kind |-> "data", days |-> {}]
    /\ df_grouped[1].total_revenue_eur = 92000

-----------------------------------------------------------------------------
(* C30: for a row whose currency is neither the reporting currency nor one  *)
(* of the seven currencies that have a fallback constant, when the rate     *)
(* feed returns no data or raises an error, the amounts are converted at    *)
(* rate 1.0 (copied unchanged into the reporting-currency fields) and       *)
(* included in the daily sums, with no error raised.                        *)

\* the row's currency has no fallback constant and its fetch gave no rate
UnknownWithoutRates(r) ==
    /\ r.currency \notin (DOMAIN fallback_rates) \cup {"EUR"}
    /\ Returned(r.currency) = {}

\* the entry of the grouped table for day d
GroupedOf(d) ==
    df_grouped[CHOOSE i \in 1..Len(df_grouped) : df_grouped[i].order_day = d]

\* the rows of the feed dated d
FeedRowsOf(d) == {r \in df : r.order_day = d}

\* the converted rows dated d
ConvertedRowsOf(d) == {r \in df_copy : r.order_day = d}

C30_UnknownCurrencyAtRateOne ==
    /\ pcX # "raised"
    /\ pcX \in {"convert", "done"} =>
           \A r \in df_copy :
               UnknownWithoutRates(r) =>
                   /\ r.total_revenue_eur = r.total_revenue * 100
                   /\ r.total_discount_eur = r.total_discount * 100
    /\ pcX = "done" =>
           \A r \in df :
               UnknownWithoutRates(r) =>
                   /\ \E i \in 1..Len(df_grouped) :
                          df_grouped[i].order_day = r.order_day
                   /\ GroupedOf(r.order_day).transaction_count
                          = SumCol(FeedRowsOf(r.order_day), "transaction_count")
                   /\ GroupedOf(r.order_day).total_revenue_eur
                          = RoundDiv(SumCol(ConvertedRowsOf(r.order_day),
                                            "total_revenue_eur"), 100)
                   /\ Cardinality(ConvertedRowsOf(r.order_day))
                          = Cardinality(FeedRowsOf(r.order_day))
                   /\ (FeedRowsOf(r.order_day) = {r}) =>
                          GroupedOf(r.order_day).total_revenue_eur
                              = r.total_revenue

\* a JPY row whose fetch raised shares its day with a EUR row, and the day's
\* sum holds both amounts unchanged
C30_Witness ==
    /\ pcX = "done"
    /\ \E r \in df, e \in df :
           /\ r.currency = "JPY"
           /\ yf["JPY"].kind = "error"
           /\ e.currency = "EUR"
           /\ e.order_day = r.order_day
           /\ GroupedOf(r.order_day).total_revenue_eur
                  = r.total_revenue + e.total_revenue
           /\ GroupedOf(r.order_day).transaction_count = 20
=============================================================================
